---- MODULE Spec2Model ----
(***************************************************************************)
(* oaamonitor: the hand-written S3-compatible client (storage/s3client.go). *)
(* SigV4 canonicalisation, signing-key derivation, and the GET/PUT calls.   *)
(*                                                                         *)
(* Text.  A Go string is a sequence of bytes.  Here a string is a sequence *)
(* whose elements are one-character TLA+ strings, one per byte, so that    *)
(* byte-wise functions (escaping, lower-casing, sorting, trimming) are     *)
(* computed byte by byte.  The output of a hash is not computed: a digest  *)
(* in hexadecimal is one element of the sequence, a term naming the hash   *)
(* and its input (see Sha256Hex, hmacSHA256, HexEncode).                     *)
(***************************************************************************)
EXTENDS Integers, Sequences, FiniteSets, TLC

VARIABLES
  client, \* the S3Client: AccessKeyID, SecretAccessKey, Region, EndpointURL
  clock,  \* the system clock, in Unix seconds (UTC)
  calls,  \* the GetObject / PutObject calls on the client, by caller
  uri,    \* one buildCanonicalURI call: its arguments and result
  qry,    \* one canonicalQueryString call: its argument and result
  hdr,    \* one getCanonicalHeaders / getSignedHeaders pair on one header map
  disk,   \* the local database file at dbPath
  remote, \* the object oaamonitor/oaamonitor.db in the remote store
  dl,     \* the DownloadDatabase call
  ul,     \* the UploadDatabase call
  job,    \* the GetLatestOAA cycle of the refresh job
  srv,    \* the Server: refreshMutex, refreshing, lastRefreshAt; the process and its environment
  reqs,   \* the /refresh requests and the goroutines they start, by request
  boot,   \* main(): how far the start of the process has come
  csv,    \* one processCSV call and the table outs_above_average
  bom,    \* one removeBOM call: the input stream and what the returned reader yields
  stats,  \* one MapStatsByPlayerID call: its argument and result
  trip    \* an upload and a download of one file against a store that keeps objects

\* The state of the application around the client and the storage functions.
app == <<srv, reqs, boot, csv, bom, stats, trip>>

\* The state of the client and of the calls of single functions of s3client.go.
s3 == <<client, clock, calls, uri, qry, hdr>>

\* The state of the storage functions and the refresh cycle.
store == <<disk, remote, dl, ul, job>>

vars == <<client, clock, calls, uri, qry, hdr, disk, remote, dl, ul, job,
          srv, reqs, boot, csv, bom, stats, trip>>

\* The printable ASCII bytes 32..126 in byte order; the three bytes a TLA+ string
\* cannot hold (22, 5C, 60 hexadecimal) stand as "<22>", "<5C>", "<60>".
Ascii ==
  <<
    " ", "!", "<22>", "#", "$", "%", "&", "'", "(", ")", "*", "+", ",", "-", ".", "/",
    "0", "1", "2", "3", "4", "5", "6", "7", "8", "9", ":", ";", "<", "=", ">", "?", "@",
    "A", "B", "C", "D", "E", "F", "G", "H", "I", "J", "K", "L", "M", "N", "O", "P", "Q",
    "R", "S", "T", "U", "V", "W", "X", "Y", "Z", "[", "<5C>", "]", "^", "_", "<60>", "a",
    "b", "c", "d", "e", "f", "g", "h", "i", "j", "k", "l", "m", "n", "o", "p", "q", "r",
    "s", "t", "u", "v", "w", "x", "y", "z", "{", "|", "}", "~"
  >>

AsciiChars == {Ascii[i] : i \in 1..Len(Ascii)}

OrdTable == [c \in AsciiChars |-> 31 + (CHOOSE i \in 1..Len(Ascii) : Ascii[i] = c)]

\* The byte value of a character (s[i] of a Go string).
Ord(c) ==
  CASE c = "\t" -> 9
    [] c = "\n" -> 10
    [] c = "\r" -> 13
    [] OTHER -> OrdTable[c]

\* The character of a byte value.
Chr(n) ==
  CASE n = 9 -> "\t"
    [] n = 10 -> "\n"
    [] n = 13 -> "\r"
    [] OTHER -> Ascii[n - 31]

\* Byte-wise lexicographic order of Go strings (the < of sort.Strings).
RECURSIVE StrLess(_, _)
StrLess(a, b) ==
  IF b = <<>> THEN FALSE
  ELSE IF a = <<>> THEN TRUE
  ELSE IF Head(a) = Head(b) THEN StrLess(Tail(a), Tail(b))
  ELSE Ord(Head(a)) < Ord(Head(b))

\* sort.Strings: insertion of x into an ascending list, before the first greater element.
RECURSIVE InsertSorted(_, _)
InsertSorted(x, sorted) ==
  IF sorted = <<>> THEN <<x>>
  ELSE IF StrLess(x, Head(sorted)) THEN <<x>> \o sorted
  ELSE <<Head(sorted)>> \o InsertSorted(x, Tail(sorted))

RECURSIVE SortStrings(_)
SortStrings(list) ==
  IF list = <<>> THEN <<>>
  ELSE InsertSorted(Head(list), SortStrings(Tail(list)))

\* The places of the byte sep in s, and the k-th of them in ascending order.
PlacesOf(s, sep) == {i \in 1..Len(s) : s[i] = sep}

NthPlace(places, k) == CHOOSE i \in places : Cardinality({j \in places : j < i}) = k - 1

\* strings.Split(s, sep) for a one-byte separator: "" splits into one empty segment.
Split(s, sep) ==
  LET places == PlacesOf(s, sep)
      n == Cardinality(places)
      from(k) == IF k = 1 THEN 1 ELSE NthPlace(places, k - 1) + 1
      to(k) == IF k = n + 1 THEN Len(s) ELSE NthPlace(places, k) - 1
  IN [k \in 1..(n + 1) |-> SubSeq(s, from(k), to(k))]

\* strings.Join(parts, sep).
RECURSIVE Join(_, _)
Join(parts, sep) ==
  IF parts = <<>> THEN <<>>
  ELSE IF Len(parts) = 1 THEN parts[1]
  ELSE parts[1] \o sep \o Join(Tail(parts), sep)

\* The digits of %02X.
HexUpper == <<"0", "1", "2", "3", "4", "5", "6", "7", "8", "9", "A", "B", "C", "D", "E", "F">>

\* encodeRFC3986's first switch case: the bytes copied unchanged.
IsUnreserved(ch) ==
  LET b == Ord(ch) IN
    \/ (Ord("A") <= b /\ b <= Ord("Z"))
    \/ (Ord("a") <= b /\ b <= Ord("z"))
    \/ (Ord("0") <= b /\ b <= Ord("9"))
    \/ ch = "-" \/ ch = "_" \/ ch = "." \/ ch = "~"

\* fmt.Fprintf(&b, "%%%02X", ch)
EscapeByte(ch) == <<"%", HexUpper[(Ord(ch) \div 16) + 1], HexUpper[(Ord(ch) % 16) + 1]>>

RECURSIVE encodeRFC3986(_)
encodeRFC3986(s) ==
  IF s = <<>> THEN <<>>
  ELSE (IF IsUnreserved(Head(s)) THEN <<Head(s)>> ELSE EscapeByte(Head(s)))
       \o encodeRFC3986(Tail(s))

\* A plausible slip: the whole key escaped as one segment, so "/" becomes %2F.
buildCanonicalURIWholeKey(bucket, key) == <<"/">> \o bucket \o <<"/">> \o encodeRFC3986(key)

buildCanonicalURI(bucket, key) ==
  LET segments == Split(key, "/")
      encoded == [i \in 1..Len(segments) |-> encodeRFC3986(segments[i])]
  IN <<"/">> \o bucket \o <<"/">> \o Join(encoded, <<"/">>)

(***************************************************************************)
(* canonicalQueryString and the url.ParseQuery it calls.                   *)
(***************************************************************************)
HexDigitsAny == <<"0", "1", "2", "3", "4", "5", "6", "7", "8", "9", "A", "B", "C", "D", "E", "F",
                  "a", "b", "c", "d", "e", "f">>

\* ishex of net/url: either case.
IsHex(c) == \E i \in 1..Len(HexDigitsAny) : HexDigitsAny[i] = c

\* unhex of net/url.
UnHex(c) ==
  LET i == CHOOSE j \in 1..Len(HexDigitsAny) : HexDigitsAny[j] = c
  IN IF i <= 16 THEN i - 1 ELSE i - 7

\* url.QueryUnescape, its validation pass: every % is followed by two hex digits.
RECURSIVE QueryUnescapeOK(_)
QueryUnescapeOK(s) ==
  IF s = <<>> THEN TRUE
  ELSE IF Head(s) = "%"
       THEN /\ Len(s) >= 3
            /\ IsHex(s[2])
            /\ IsHex(s[3])
            /\ QueryUnescapeOK(SubSeq(s, 4, Len(s)))
       ELSE QueryUnescapeOK(Tail(s))

\* url.QueryUnescape, its decoding pass: %XX is the byte XX and + is a space.
RECURSIVE QueryUnescape(_)
QueryUnescape(s) ==
  IF s = <<>> THEN <<>>
  ELSE IF Head(s) = "%"
       THEN <<Chr(UnHex(s[2]) * 16 + UnHex(s[3]))>> \o QueryUnescape(SubSeq(s, 4, Len(s)))
       ELSE IF Head(s) = "+" THEN <<" ">> \o QueryUnescape(Tail(s))
       ELSE <<Head(s)>> \o QueryUnescape(Tail(s))

\* strings.Cut(s, sep): the text before the first sep and the text after it.
Cut(s, sep) ==
  LET places == PlacesOf(s, sep)
  IN IF places = {} THEN <<s, <<>>>>
     ELSE LET i == NthPlace(places, 1)
          IN <<SubSeq(s, 1, i - 1), SubSeq(s, i + 1, Len(s))>>

Contains(s, c) == \E i \in 1..Len(s) : s[i] = c

\* One &-separated part of the query as url.ParseQuery reads it:
\* "skip" (empty), "error" (a semicolon or a bad escape), or a decoded pair.
ParsePart(part) ==
  LET kv == Cut(part, "=") IN
    IF Contains(part, ";") THEN [kind |-> "error", key |-> <<>>, value |-> <<>>]
    ELSE IF part = <<>> THEN [kind |-> "skip", key |-> <<>>, value |-> <<>>]
    ELSE IF ~QueryUnescapeOK(kv[1]) \/ ~QueryUnescapeOK(kv[2])
         THEN [kind |-> "error", key |-> <<>>, value |-> <<>>]
    ELSE [kind |-> "pair", key |-> QueryUnescape(kv[1]), value |-> QueryUnescape(kv[2])]

\* url.ParseQuery: the pairs it could decode, in order, and whether it met an error.
ParseQuery(rawQuery) ==
  LET parts == Split(rawQuery, "&")
      parsed == [i \in 1..Len(parts) |-> ParsePart(parts[i])]
  IN [err |-> \E i \in 1..Len(parsed) : parsed[i].kind = "error",
      pairs |-> SelectSeq(parsed, LAMBDA p : p.kind = "pair")]

\* The keys of the url.Values map: each key once.
RECURSIVE DistinctKeys(_)
DistinctKeys(pairs) ==
  IF pairs = <<>> THEN <<>>
  ELSE LET rest == DistinctKeys(Tail(pairs))
       IN IF \E i \in 1..Len(rest) : rest[i] = Head(pairs).key
          THEN rest ELSE <<Head(pairs).key>> \o rest

\* values[key]: the values appended under one key, in order of appearance.
ValuesOf(pairs, key) ==
  LET mine == SelectSeq(pairs, LAMBDA p : p.key = key)
  IN [i \in 1..Len(mine) |-> mine[i].value]

RECURSIVE Flatten(_)
Flatten(lists) ==
  IF lists = <<>> THEN <<>> ELSE Head(lists) \o Flatten(Tail(lists))

canonicalQueryString(rawQuery) ==
  IF rawQuery = <<>> THEN <<>>
  ELSE LET values == ParseQuery(rawQuery) IN
    IF values.err THEN <<>>
    ELSE LET keys == SortStrings(DistinctKeys(values.pairs))
             partsOf(key) ==
               LET vals == SortStrings(ValuesOf(values.pairs, key))
               IN [j \in 1..Len(vals) |->
                     encodeRFC3986(key) \o <<"=">> \o encodeRFC3986(vals[j])]
             parts == Flatten([i \in 1..Len(keys) |-> partsOf(keys[i])])
         IN Join(parts, <<"&">>)

(***************************************************************************)
(* http.Header and the two header renderings of the signer.                *)
(* A header map is a function from field name to its list of values; the  *)
(* order in which `range` visits its keys is an argument (any permutation).*)
(***************************************************************************)
IsUpperLetter(c) == c \in AsciiChars /\ Ord("A") <= Ord(c) /\ Ord(c) <= Ord("Z")

IsLowerLetter(c) == c \in AsciiChars /\ Ord("a") <= Ord(c) /\ Ord(c) <= Ord("z")

ToLowerChar(c) == IF IsUpperLetter(c) THEN Chr(Ord(c) + 32) ELSE c

ToUpperChar(c) == IF IsLowerLetter(c) THEN Chr(Ord(c) - 32) ELSE c

\* strings.ToLower
ToLower(s) == [i \in 1..Len(s) |-> ToLowerChar(s[i])]

IsSpace(c) == c \in {" ", "\t", "\n", "\r"}

RECURSIVE TrimLeft(_)
TrimLeft(s) == IF s # <<>> /\ IsSpace(Head(s)) THEN TrimLeft(Tail(s)) ELSE s

RECURSIVE TrimRight(_)
TrimRight(s) ==
  IF s # <<>> /\ IsSpace(s[Len(s)]) THEN TrimRight(SubSeq(s, 1, Len(s) - 1)) ELSE s

\* strings.TrimSpace
TrimSpace(s) == TrimRight(TrimLeft(s))

\* validHeaderFieldByte of net/textproto: the token bytes of RFC 7230.
IsTokenByte(c) ==
  \/ IsUpperLetter(c) \/ IsLowerLetter(c)
  \/ (c \in AsciiChars /\ Ord("0") <= Ord(c) /\ Ord(c) <= Ord("9"))
  \/ c \in {"!", "#", "$", "%", "&", "'", "*", "+", "-", ".", "^", "_", "<60>", "|", "~"}

\* textproto.CanonicalMIMEHeaderKey: a key with a non-token byte is left as it is;
\* otherwise the first letter and each letter after "-" is upper case, the rest lower.
CanonicalMIMEHeaderKey(s) ==
  IF \E i \in 1..Len(s) : ~IsTokenByte(s[i]) THEN s
  ELSE [i \in 1..Len(s) |->
          IF i = 1 \/ s[i - 1] = "-" THEN ToUpperChar(s[i]) ELSE ToLowerChar(s[i])]

\* http.Header.Get: the first value under the canonical form of the key, or "".
HeaderGet(header, key) ==
  LET k == CanonicalMIMEHeaderKey(key)
  IN IF k \in DOMAIN header /\ header[k] # <<>> THEN header[k][1] ELSE <<>>

\* http.Header.Set: one value under the canonical form of the key.
HeaderSet(header, key, value) ==
  LET k == CanonicalMIMEHeaderKey(key)
  IN [x \in (DOMAIN header) \cup {k} |-> IF x = k THEN <<value>> ELSE header[x]]

NoHeader == [x \in {} |-> <<>>]

\* The orders in which `for key := range req.Header` may visit the keys.
RECURSIVE Perms(_)
Perms(S) ==
  IF S = {} THEN {<<>>}
  ELSE UNION {{<<x>> \o p : p \in Perms(S \ {x})} : x \in S}

RangeOrders(header) == Perms(DOMAIN header)

\* A plausible slip: the header lines rendered in the order the map yields them.
getCanonicalHeadersUnsorted(header, order) ==
  LET headers == [i \in 1..Len(order) |-> ToLower(order[i])]
      canonical == [i \in 1..Len(headers) |->
                      headers[i] \o <<":">> \o TrimSpace(HeaderGet(header, headers[i]))]
  IN Join(canonical, <<"\n">>) \o <<"\n">>

getCanonicalHeaders(header, order) ==
  LET headers == SortStrings([i \in 1..Len(order) |-> ToLower(order[i])])
      canonical == [i \in 1..Len(headers) |->
                      headers[i] \o <<":">> \o TrimSpace(HeaderGet(header, headers[i]))]
  IN Join(canonical, <<"\n">>) \o <<"\n">>

\* A plausible slip: the names joined in the order the map yields them.
getSignedHeadersUnsorted(header, order) ==
  Join([i \in 1..Len(order) |-> ToLower(order[i])], <<";">>)

getSignedHeaders(header, order) ==
  LET headers == SortStrings([i \in 1..Len(order) |-> ToLower(order[i])])
  IN Join(headers, <<";">>)

\* The orders of one `range req.Header` loop that matter: one order for each text
\* the loop's function can give (orders giving the same text lead to the same state).
CanonicalLoopOrders(header) ==
  LET orders == RangeOrders(header)
      results == {getCanonicalHeaders(header, o) : o \in orders}
  IN {CHOOSE o \in orders : getCanonicalHeaders(header, o) = r : r \in results}

SignedLoopOrders(header) ==
  LET orders == RangeOrders(header)
      results == {getSignedHeaders(header, o) : o \in orders}
  IN {CHOOSE o \in orders : getSignedHeaders(header, o) = r : r \in results}

(***************************************************************************)
(* Time stamps: time.Time.Format on a UTC instant, given in Unix seconds.  *)
(***************************************************************************)
DecimalDigits == <<"0", "1", "2", "3", "4", "5", "6", "7", "8", "9">>

\* n in decimal, zero-padded to at least w digits.
RECURSIVE PadDigits(_, _)
PadDigits(n, w) ==
  IF n < 10 /\ w <= 1 THEN <<DecimalDigits[n + 1]>>
  ELSE Append(PadDigits(n \div 10, w - 1), DecimalDigits[(n % 10) + 1])

\* %d
Decimal(n) == PadDigits(n, 1)

\* The civil date (UTC) of a day number counted from 1970-01-01.
CivilFromDays(days) ==
  LET z == days + 719468
      era == z \div 146097
      doe == z - era * 146097
      yoe == (doe - (doe \div 1460) + (doe \div 36524) - (doe \div 146096)) \div 365
      doy == doe - (365 * yoe + (yoe \div 4) - (yoe \div 100))
      mp == (5 * doy + 2) \div 153
      d == doy - ((153 * mp + 2) \div 5) + 1
      m == IF mp < 10 THEN mp + 3 ELSE mp - 9
      y == yoe + era * 400 + (IF m <= 2 THEN 1 ELSE 0)
  IN [year |-> y, month |-> m, day |-> d]

\* now.Format("20060102")
FormatDate(t) ==
  LET c == CivilFromDays(t \div 86400)
  IN PadDigits(c.year, 4) \o PadDigits(c.month, 2) \o PadDigits(c.day, 2)

\* now.Format("20060102T150405Z")
FormatTime(t) ==
  LET s == t % 86400
  IN FormatDate(t) \o <<"T">> \o PadDigits(s \div 3600, 2) \o PadDigits((s % 3600) \div 60, 2)
       \o PadDigits(s % 60, 2) \o <<"Z">>

(***************************************************************************)
(* Hashes.  SHA-256 and HMAC-SHA256 are not computed: a digest is a term   *)
(* over its inputs, so two digests are equal exactly when they were made   *)
(* the same way from the same bytes.  Raw digest bytes are a TLA+ string;  *)
(* a hex digest is a string (sequence) of one element.                     *)
(***************************************************************************)
\* string(bytes): the text of a sequence, as one TLA+ string.
RECURSIVE Str(_)
Str(s) ==
  IF s = <<>> THEN ""
  ELSE IF Len(s) = 1 THEN s[1]
  ELSE LET half == Len(s) \div 2
       IN Str(SubSeq(s, 1, half)) \o Str(SubSeq(s, half + 1, Len(s)))

\* The SHA-256 of no bytes, in hex: the literal of signRequest.
EmptyPayloadHash ==
  <<"e", "3", "b", "0", "c", "4", "4", "2", "9", "8", "f", "c", "1", "c", "1", "4", "9", "a", "f", "b", "f", "4", "c", "8", "9", "9", "6", "f", "b", "9", "2", "4", "2", "7", "a", "e", "4", "1", "e", "4", "6", "4", "9", "b", "9", "3", "4", "c", "a", "4", "9", "5", "9", "9", "1", "b", "7", "8", "5", "2", "b", "8", "5", "5">>

\* hex.EncodeToString(sha256(data)); the digest of no bytes is the known constant.
Sha256Hex(data) ==
  IF data = <<>> THEN EmptyPayloadHash ELSE <<"sha256hex[" \o Str(data) \o "]">>

\* hmacSHA256(key, data): raw bytes from raw bytes.
hmacSHA256(key, data) == "hmac[" \o key \o "|" \o data \o "]"

\* hex.EncodeToString of raw digest bytes.
HexEncode(raw) == <<"hex[" \o raw \o "]">>

\* A plausible slip: each key of the chain passed on in hex instead of raw.
calculateSignatureHexKeys(c, dateStamp, stringToSign) ==
  LET kDate == Str(HexEncode(hmacSHA256(Str(<<"A", "W", "S", "4">> \o c.SecretAccessKey), Str(dateStamp))))
      kRegion == Str(HexEncode(hmacSHA256(kDate, Str(c.Region))))
      kService == Str(HexEncode(hmacSHA256(kRegion, "s3")))
      kSigning == Str(HexEncode(hmacSHA256(kService, "aws4_request")))
  IN HexEncode(hmacSHA256(kSigning, Str(stringToSign)))

calculateSignature(c, dateStamp, stringToSign) ==
  LET kDate == hmacSHA256(Str(<<"A", "W", "S", "4">> \o c.SecretAccessKey), Str(dateStamp))
      kRegion == hmacSHA256(kDate, Str(c.Region))
      kService == hmacSHA256(kRegion, "s3")
      kSigning == hmacSHA256(kService, "aws4_request")
      signature == hmacSHA256(kSigning, Str(stringToSign))
  IN HexEncode(signature)

(***************************************************************************)
(* url.Parse, as far as the client reads its result.                       *)
(***************************************************************************)
IsSchemeByte(c) ==
  \/ IsUpperLetter(c) \/ IsLowerLetter(c)
  \/ (c \in AsciiChars /\ Ord("0") <= Ord(c) /\ Ord(c) <= Ord("9"))
  \/ c \in {"+", "-", "."}

\* getScheme of net/url: the scheme ends at the first ":"; a ":" in first place is
\* an error; a byte that cannot be in a scheme before any ":" means no scheme.
RECURSIVE SchemeLen(_, _)
SchemeLen(s, i) ==
  IF i > Len(s) THEN 0
  ELSE IF s[i] = ":" THEN (IF i = 1 THEN -1 ELSE i - 1)
  ELSE IF IsSchemeByte(s[i]) /\ (i > 1 \/ IsUpperLetter(s[i]) \/ IsLowerLetter(s[i]))
       THEN SchemeLen(s, i + 1)
  ELSE 0

\* url.Parse: [ok, host, path, rawQuery].  The fragment is not used by the client.
URLParse(u) ==
  LET n == SchemeLen(u, 1)
      rest == IF n > 0 THEN SubSeq(u, n + 2, Len(u)) ELSE u
      q == Cut(rest, "?")
      hier == q[1]
      hasAuthority == Len(hier) >= 2 /\ hier[1] = "/" /\ hier[2] = "/"
      afterSlashes == SubSeq(hier, 3, Len(hier))
      authority == Cut(afterSlashes, "/")[1]
  IN [ok |-> n >= 0,
      host |-> IF hasAuthority THEN authority ELSE <<>>,
      path |-> IF hasAuthority
                 THEN SubSeq(afterSlashes, Len(authority) + 1, Len(afterSlashes))
                 ELSE hier,
      rawQuery |-> q[2]]

\* strings.TrimSuffix(endpoint, "/")
TrimSuffixSlash(s) ==
  IF s # <<>> /\ s[Len(s)] = "/" THEN SubSeq(s, 1, Len(s) - 1) ELSE s

\* buildObjectURL: [ok, url]; u.String() gives back the text that was parsed.
buildObjectURL(endpoint, bucket, key) ==
  LET trimmed == TrimSuffixSlash(endpoint)
      path == buildCanonicalURI(bucket, key)
      u == URLParse(trimmed \o path)
  IN [ok |-> u.ok, url |-> IF u.ok THEN trimmed \o path ELSE <<>>]

(***************************************************************************)
(* signRequest.                                                            *)
(* reads: what successive readings of the clock give while the call runs   *)
(* (the first is the instant of time.Now() at its first line).  order1 and *)
(* order2: the orders in which the two `range req.Header` loops visit the  *)
(* map.  The result is the signed header map and the call's local values.  *)
(***************************************************************************)
\* A plausible slip: the date stamp taken from a second reading of the clock.
StampDateSecondRead(now, reads) == FormatDate(reads[2])

\* dateStamp := now.Format("20060102")
StampDate(now, reads) == FormatDate(now)

\* A plausible slip: the Host header left out of the headers that are signed.
HeadersToSignNoHost(req, timeStamp, payloadHash) ==
  HeaderSet(HeaderSet(req.header, <<"X", "-", "A", "m", "z", "-", "D", "a", "t", "e">>, timeStamp),
            <<"X", "-", "A", "m", "z", "-", "C", "o", "n", "t", "e", "n", "t", "-", "S", "h", "a", "2", "5", "6">>, payloadHash)

\* The header map after the three Header.Set calls of signRequest.
HeadersToSign(req, timeStamp, payloadHash) ==
  HeaderSet(HeaderSet(HeaderSet(req.header, <<"H", "o", "s", "t">>, URLParse(req.url).host),
                      <<"X", "-", "A", "m", "z", "-", "D", "a", "t", "e">>, timeStamp),
            <<"X", "-", "A", "m", "z", "-", "C", "o", "n", "t", "e", "n", "t", "-", "S", "h", "a", "2", "5", "6">>, payloadHash)

\* payloadHash after the `if payloadHash == ""` of signRequest.
EffectivePayloadHash(payloadHash) ==
  IF payloadHash = <<>> THEN EmptyPayloadHash ELSE payloadHash

\* A plausible slip: the signed-header list put before the header block.
CanonicalRequestSwapped(method, canonicalURI, canonicalQuery, canonicalHeaders, signedHeaders, payloadHash) ==
  method \o <<"\n">> \o canonicalURI \o <<"\n">> \o canonicalQuery \o <<"\n">>
    \o signedHeaders \o <<"\n">> \o canonicalHeaders \o <<"\n">> \o payloadHash

\* fmt.Sprintf("%s\n%s\n%s\n%s\n%s\n%s", ...)
CanonicalRequest(method, canonicalURI, canonicalQuery, canonicalHeaders, signedHeaders, payloadHash) ==
  method \o <<"\n">> \o canonicalURI \o <<"\n">> \o canonicalQuery \o <<"\n">>
    \o canonicalHeaders \o <<"\n">> \o signedHeaders \o <<"\n">> \o payloadHash

\* A plausible slip: the scope of the header written without the region.
AuthorizationNoRegion(c, dateStamp, credentialScope, signedHeaders, signature) ==
  <<"A", "W", "S", "4", "-", "H", "M", "A", "C", "-", "S", "H", "A", "2", "5", "6", " ", "C", "r", "e", "d", "e", "n", "t", "i", "a", "l", "=">> \o c.AccessKeyID \o <<"/">> \o dateStamp
    \o <<"/", "s", "3", "/", "a", "w", "s", "4", "_", "r", "e", "q", "u", "e", "s", "t">>
    \o <<",", " ", "S", "i", "g", "n", "e", "d", "H", "e", "a", "d", "e", "r", "s", "=">> \o signedHeaders \o <<",", " ", "S", "i", "g", "n", "a", "t", "u", "r", "e", "=">> \o signature

\* fmt.Sprintf("AWS4-HMAC-SHA256 Credential=%s/%s, SignedHeaders=%s, Signature=%s", ...)
Authorization(c, dateStamp, credentialScope, signedHeaders, signature) ==
  <<"A", "W", "S", "4", "-", "H", "M", "A", "C", "-", "S", "H", "A", "2", "5", "6", " ", "C", "r", "e", "d", "e", "n", "t", "i", "a", "l", "=">> \o c.AccessKeyID \o <<"/">> \o credentialScope
    \o <<",", " ", "S", "i", "g", "n", "e", "d", "H", "e", "a", "d", "e", "r", "s", "=">> \o signedHeaders \o <<",", " ", "S", "i", "g", "n", "a", "t", "u", "r", "e", "=">> \o signature

\* signRequest, lines 125-142: the instant, the payload hash, the headers set on the
\* request, and the canonical URI and query string.
SignInputs(c, req, bucket, key, payloadHashArg, reads) ==
  LET now == reads[1]
      timeStamp == FormatTime(now)
      payloadHash == EffectivePayloadHash(payloadHashArg)
  IN [method |-> req.method,
      header |-> HeadersToSign(req, timeStamp, payloadHash),
      now |-> now,
      dateStamp |-> StampDate(now, reads),
      timeStamp |-> timeStamp,
      payloadHash |-> payloadHash,
      canonicalURI |-> buildCanonicalURI(bucket, key),
      canonicalQuery |-> canonicalQueryString(URLParse(req.url).rawQuery)]

\* signRequest, lines 139-152: the two renderings of the headers (each with the order
\* of its own map loop) and the canonical request.
SignCanonical(i, order1, order2) ==
  LET canonicalHeaders == getCanonicalHeaders(i.header, order1)
      signedHeaders == getSignedHeaders(i.header, order2)
  IN [header |-> i.header,
      now |-> i.now,
      dateStamp |-> i.dateStamp,
      timeStamp |-> i.timeStamp,
      payloadHash |-> i.payloadHash,
      canonicalHeaders |-> canonicalHeaders,
      signedHeaders |-> signedHeaders,
      canonicalURI |-> i.canonicalURI,
      canonicalQuery |-> i.canonicalQuery,
      canonicalRequest |->
        CanonicalRequest(i.method, i.canonicalURI, i.canonicalQuery, canonicalHeaders,
                         signedHeaders, i.payloadHash)]

\* signRequest, lines 155-161: the credential scope and the string to sign.
SignString(c, k) ==
  LET credentialScope == k.dateStamp \o <<"/">> \o c.Region \o <<"/", "s", "3", "/", "a", "w", "s", "4", "_", "r", "e", "q", "u", "e", "s", "t">>
  IN [credentialScope |-> credentialScope,
      stringToSign |->
        <<"A", "W", "S", "4", "-", "H", "M", "A", "C", "-", "S", "H", "A", "2", "5", "6">> \o <<"\n">> \o k.timeStamp \o <<"\n">> \o credentialScope
          \o <<"\n">> \o Sha256Hex(k.canonicalRequest)]

\* signRequest, lines 164-175: the signature and the Authorization header.
SignFinish(c, k, t, signature) ==
  [header |-> HeaderSet(k.header, <<"A", "u", "t", "h", "o", "r", "i", "z", "a", "t", "i", "o", "n">>,
                Authorization(c, k.dateStamp, t.credentialScope, k.signedHeaders,
                              signature)),
   now |-> k.now,
   dateStamp |-> k.dateStamp,
   timeStamp |-> k.timeStamp,
   payloadHash |-> k.payloadHash,
   canonicalHeaders |-> k.canonicalHeaders,
   signedHeaders |-> k.signedHeaders,
   canonicalURI |-> k.canonicalURI,
   canonicalQuery |-> k.canonicalQuery,
   canonicalRequest |-> k.canonicalRequest,
   credentialScope |-> t.credentialScope,
   stringToSign |-> t.stringToSign,
   signature |-> signature]

SignSigned(c, k, t) ==
  SignFinish(c, k, t, calculateSignature(c, k.dateStamp, t.stringToSign))

SignScoped(c, k) == SignSigned(c, k, SignString(c, k))

\* signRequest: what it sets on the request and every text it computes on the way.
\* reads are the readings of the clock (the code reads it once), order1 and order2 the
\* orders of the map loops of getCanonicalHeaders and getSignedHeaders.
signRequest(c, req, bucket, key, payloadHashArg, reads, order1, order2) ==
  SignScoped(c, SignCanonical(SignInputs(c, req, bucket, key, payloadHashArg, reads),
                              order1, order2))

(***************************************************************************)
(* The client and its two calls.  A call is sent in one step (everything   *)
(* GetObject / PutObject do up to client.Do) and finished in a second step *)
(* (the response, or the transport's error), other calls and the clock     *)
(* moving in between.                                                      *)
(***************************************************************************)
\* NewS3Client(accessKeyID, secretAccessKey, region, endpointURL)
NewS3Client(accessKeyID, secretAccessKey, region, endpointURL) ==
  [AccessKeyID |-> accessKeyID, SecretAccessKey |-> secretAccessKey,
   Region |-> region, EndpointURL |-> endpointURL]

NoSign ==
  [header |-> NoHeader, now |-> 0, dateStamp |-> <<>>, timeStamp |-> <<>>,
   payloadHash |-> <<>>, canonicalHeaders |-> <<>>, signedHeaders |-> <<>>,
   canonicalURI |-> <<>>, canonicalQuery |-> <<>>, canonicalRequest |-> <<>>,
   credentialScope |-> <<>>, stringToSign |-> <<>>, signature |-> <<>>]

\* A caller with no call in progress.
IdleCall ==
  [pc |-> "idle", method |-> <<>>, bucket |-> <<>>, key |-> <<>>,
   body |-> <<>>, startPos |-> 0, pos |-> 0, size |-> 0, contentLength |-> 0,
   url |-> <<>>,
   header |-> NoHeader, sign |-> NoSign,
   hashed |-> <<>>, transmitted |-> <<>>, attempts |-> 0,
   status |-> 0, respBody |-> <<>>, respClosed |-> FALSE,
   err |-> <<>>, stream |-> "nil"]

\* The error text of url.Parse on a URL without a scheme.
ParseErrorText(u) ==
  <<"p", "a", "r", "s", "e", " ">> \o <<"<22>">> \o u \o <<"<22>">> \o <<":", " ", "m", "i", "s", "s", "i", "n", "g", " ", "p", "r", "o", "t", "o", "c", "o", "l", " ", "s", "c", "h", "e", "m", "e">>

\* The text of whatever error the HTTP transport gave: not modelled further.
TransportErrorText == <<"<transport error>">>

\* http.NewRequest(method, objectURL, body): a request with an empty header map.
NewRequest(method, objectURL) ==
  [method |-> method, url |-> objectURL, header |-> NoHeader, contentLength |-> 0]

\* A plausible slip: the length of the body is never declared.
WithContentLengthUnset(req, size) == req

\* req.ContentLength = size
WithContentLength(req, size) == [req EXCEPT !.contentLength = size]

\* A plausible slip: the signing result is kept in a cache the calls share, and a
\* call takes what another call left there.
SignedFromSharedCache(call, s) ==
  IF \E d \in DOMAIN calls : calls[d].pc = "sent"
  THEN LET d == CHOOSE d \in DOMAIN calls : calls[d].pc = "sent"
       IN [call EXCEPT !.header = calls[d].header, !.sign = calls[d].sign]
  ELSE [call EXCEPT !.header = s.header, !.sign = s]

\* The call after signRequest: the request carries the headers signRequest set.
Signed(call, s) == [call EXCEPT !.header = s.header, !.sign = s]

\* GetObject, lines 38-51: build the URL, make the request, sign it.
GetObjectSend(c, bucket, key) ==
  /\ calls[c].pc = "idle"
  /\ \E built \in {buildObjectURL(client.EndpointURL, bucket, key)} :
     \E req \in {NewRequest(<<"G", "E", "T">>, built.url)} :
     \E toSign \in {HeadersToSign(req, FormatTime(clock), EmptyPayloadHash)} :
        IF ~built.ok
        THEN calls' = [calls EXCEPT ![c] =
               [IdleCall EXCEPT !.pc = "done", !.method = <<"G", "E", "T">>,
                  !.bucket = bucket, !.key = key,
                  !.err = <<"f", "a", "i", "l", "e", "d", " ", "t", "o", " ", "b", "u", "i", "l", "d", " ", "r", "e", "q", "u", "e", "s", "t", " ", "U", "R", "L", ":", " ">>
                            \o ParseErrorText(TrimSuffixSlash(client.EndpointURL)
                                                \o buildCanonicalURI(bucket, key))]]
        ELSE \E later \in {clock, clock + 1} :
             \E order1 \in CanonicalLoopOrders(toSign),
                order2 \in SignedLoopOrders(toSign) :
               calls' = [calls EXCEPT ![c] =
                 Signed([IdleCall EXCEPT !.pc = "sent", !.method = req.method,
                           !.bucket = bucket, !.key = key, !.url = req.url,
                           !.attempts = 1],
                        signRequest(client, req, bucket, key, <<>>, <<clock, later>>,
                                    order1, order2))]
  /\ UNCHANGED <<app, client, clock, uri, qry, hdr, disk, remote, dl, ul, job>>

\* A plausible slip: the generic status check made before the 404 check.
GetObjectOutcomeGenericFirst(bucket, key, status, body) ==
  IF status # 200
    THEN [err |-> <<"S", "3", " ", "e", "r", "r", "o", "r", " ">> \o Decimal(status) \o <<":", " ">> \o body,
          stream |-> "nil", respClosed |-> TRUE]
  ELSE IF status = 404
    THEN [err |-> <<"o", "b", "j", "e", "c", "t", " ", "n", "o", "t", " ", "f", "o", "u", "n", "d", ":", " ">> \o bucket \o <<"/">> \o key,
          stream |-> "nil", respClosed |-> TRUE]
  ELSE [err |-> <<>>, stream |-> "open", respClosed |-> FALSE]

\* A plausible slip: the body is handed to the caller along with a status error.
GetObjectOutcomeKeepsStream(bucket, key, status, body) ==
  IF status = 404
    THEN [err |-> <<"o", "b", "j", "e", "c", "t", " ", "n", "o", "t", " ", "f", "o", "u", "n", "d", ":", " ">> \o bucket \o <<"/">> \o key,
          stream |-> "nil", respClosed |-> TRUE]
  ELSE IF status # 200
    THEN [err |-> <<"S", "3", " ", "e", "r", "r", "o", "r", " ">> \o Decimal(status) \o <<":", " ">> \o body,
          stream |-> "open", respClosed |-> FALSE]
  ELSE [err |-> <<>>, stream |-> "open", respClosed |-> FALSE]

\* A plausible slip: the 404 branch returns without closing the body.
GetObjectOutcomeLeaksNotFound(bucket, key, status, body) ==
  IF status = 404
    THEN [err |-> <<"o", "b", "j", "e", "c", "t", " ", "n", "o", "t", " ", "f", "o", "u", "n", "d", ":", " ">> \o bucket \o <<"/">> \o key,
          stream |-> "nil", respClosed |-> FALSE]
  ELSE IF status # 200
    THEN [err |-> <<"S", "3", " ", "e", "r", "r", "o", "r", " ">> \o Decimal(status) \o <<":", " ">> \o body,
          stream |-> "nil", respClosed |-> TRUE]
  ELSE [err |-> <<>>, stream |-> "open", respClosed |-> FALSE]

\* GetObject, lines 59-70: what is returned for a response.
GetObjectOutcome(bucket, key, status, body) ==
  IF status = 404
    THEN [err |-> <<"o", "b", "j", "e", "c", "t", " ", "n", "o", "t", " ", "f", "o", "u", "n", "d", ":", " ">> \o bucket \o <<"/">> \o key,
          stream |-> "nil", respClosed |-> TRUE]
  ELSE IF status # 200
    THEN [err |-> <<"S", "3", " ", "e", "r", "r", "o", "r", " ">> \o Decimal(status) \o <<":", " ">> \o body,
          stream |-> "nil", respClosed |-> TRUE]
  ELSE [err |-> <<>>, stream |-> "open", respClosed |-> FALSE]

\* The statuses and bodies the remote end answers with.
Statuses == {200, 204, 403, 404, 500}

ResponseBody(status) ==
  CASE status = 200 -> <<"S", "Q", "L", "i", "t", "e">>
    [] status = 204 -> <<>>
    [] status = 403 -> <<"A", "c", "c", "e", "s", "s", "D", "e", "n", "i", "e", "d">>
    [] status = 404 -> <<"N", "o", "S", "u", "c", "h", "K", "e", "y">>
    [] OTHER -> <<"I", "n", "t", "e", "r", "n", "a", "l", "E", "r", "r", "o", "r">>

\* GetObject, lines 54 and 59-70: client.Do returned a response.
GetObjectResponse(c, status) ==
  /\ calls[c].pc = "sent"
  /\ calls[c].method = <<"G", "E", "T">>
  /\ LET out == GetObjectOutcome(calls[c].bucket, calls[c].key, status,
                                 ResponseBody(status))
     IN calls' = [calls EXCEPT ![c].pc = "done", ![c].status = status,
                               ![c].respBody = ResponseBody(status),
                               ![c].err = out.err, ![c].stream = out.stream,
                               ![c].respClosed = out.respClosed]
  /\ UNCHANGED <<app, client, clock, uri, qry, hdr, disk, remote, dl, ul, job>>

\* The io.ReadSeeker PutObject is given: a file's bytes and the read position.
NewReader(data, pos) == [data |-> data, pos |-> pos]

\* A plausible slip: the reader is not rewound.
SeekNothing(reader, offset) == reader

\* reader.Seek(offset, io.SeekStart)
Seek(reader, offset) == [reader EXCEPT !.pos = offset]

\* What a read to EOF yields (io.Copy from the reader; the transport's read of the body).
ReadToEnd(reader) == SubSeq(reader.data, reader.pos + 1, Len(reader.data))

\* The reader after a read to EOF.
AtEnd(reader) == [reader EXCEPT !.pos = Len(reader.data)]

\* PutObject, lines 75-109.  size is the size argument; fail names the step of the
\* body reader that fails, if any: the first Seek, the read for the hash, the second
\* Seek.  The last branch ends in client.Do, whose transport reads the body from the
\* position the reader is left at.
PutObjectSend(c, bucket, key, data, startPos, size, fail) ==
  /\ calls[c].pc = "idle"
  /\ \E built \in {buildObjectURL(client.EndpointURL, bucket, key)} :
     \E req0 \in {NewRequest(<<"P", "U", "T">>, built.url)} :
     \E sized \in {WithContentLength(req0, size)} :
     \E req \in {[sized EXCEPT !.header =
                    HeaderSet(sized.header, <<"C", "o", "n", "t", "e", "n", "t", "-", "T", "y", "p", "e">>, <<"a", "p", "p", "l", "i", "c", "a", "t", "i", "o", "n", "/", "o", "c", "t", "e", "t", "-", "s", "t", "r", "e", "a", "m">>)]} :
     \E rewound \in {Seek(NewReader(data, startPos), 0)} :
     \E hashed \in {ReadToEnd(rewound)} :
     \E reset \in {Seek(AtEnd(rewound), 0)} :
     \E payloadHashStr \in {Sha256Hex(hashed)} :
     \E toSign \in {HeadersToSign(req, FormatTime(clock), payloadHashStr)} :
     \E started \in {[IdleCall EXCEPT !.method = <<"P", "U", "T">>, !.bucket = bucket, !.key = key,
                                      !.body = data, !.startPos = startPos,
                                      !.pos = startPos, !.size = size]} :
        IF ~built.ok
        THEN calls' = [calls EXCEPT ![c] =
               [started EXCEPT !.pc = "done",
                  !.err = <<"f", "a", "i", "l", "e", "d", " ", "t", "o", " ", "b", "u", "i", "l", "d", " ", "r", "e", "q", "u", "e", "s", "t", " ", "U", "R", "L", ":", " ">>
                            \o ParseErrorText(TrimSuffixSlash(client.EndpointURL)
                                                \o buildCanonicalURI(bucket, key))]]
        ELSE IF fail = "seek1"
        THEN calls' = [calls EXCEPT ![c] =
               [started EXCEPT !.pc = "done", !.url = req.url, !.header = req.header,
                  !.contentLength = req.contentLength,
                  !.err = <<"f", "a", "i", "l", "e", "d", " ", "t", "o", " ", "r", "e", "w", "i", "n", "d", " ", "r", "e", "a", "d", "e", "r", ":", " ">> \o <<"<seek error>">>]]
        ELSE IF fail = "hash"
        THEN calls' = [calls EXCEPT ![c] =
               [started EXCEPT !.pc = "done", !.url = req.url, !.header = req.header,
                  !.contentLength = req.contentLength, !.pos = rewound.pos,
                  !.err = <<"f", "a", "i", "l", "e", "d", " ", "t", "o", " ", "h", "a", "s", "h", " ", "p", "a", "y", "l", "o", "a", "d", ":", " ">> \o <<"<read error>">>]]
        ELSE IF fail = "seek2"
        THEN calls' = [calls EXCEPT ![c] =
               [started EXCEPT !.pc = "done", !.url = req.url, !.header = req.header,
                  !.contentLength = req.contentLength, !.pos = AtEnd(rewound).pos,
                  !.hashed = hashed,
                  !.err = <<"f", "a", "i", "l", "e", "d", " ", "t", "o", " ", "r", "e", "w", "i", "n", "d", " ", "r", "e", "a", "d", "e", "r", ":", " ">> \o <<"<seek error>">>]]
        ELSE \E later \in {clock, clock + 1} :
             \E order1 \in CanonicalLoopOrders(toSign),
                order2 \in SignedLoopOrders(toSign) :
               calls' = [calls EXCEPT ![c] =
                 Signed([started EXCEPT !.pc = "sent", !.url = req.url,
                           !.pos = reset.pos, !.contentLength = req.contentLength,
                           !.hashed = hashed, !.transmitted = ReadToEnd(reset),
                           !.attempts = 1],
                        signRequest(client, req, bucket, key, payloadHashStr,
                                    <<clock, later>>, order1, order2))]
  /\ UNCHANGED <<app, client, clock, uri, qry, hdr, disk, remote, dl, ul, job>>

\* A plausible slip: 204 No Content is not taken for success.
PutObjectOutcomeOnly200(status, body) ==
  IF status # 200
    THEN [err |-> <<"S", "3", " ", "e", "r", "r", "o", "r", " ">> \o Decimal(status) \o <<":", " ">> \o body]
    ELSE [err |-> <<>>]

\* PutObject, lines 113-120: what is returned for a response.
PutObjectOutcome(status, body) ==
  IF status # 200 /\ status # 204
    THEN [err |-> <<"S", "3", " ", "e", "r", "r", "o", "r", " ">> \o Decimal(status) \o <<":", " ">> \o body]
    ELSE [err |-> <<>>]

\* PutObject, lines 109 and 113-120: client.Do returned a response.
PutObjectResponse(c, status) ==
  /\ calls[c].pc = "sent"
  /\ calls[c].method = <<"P", "U", "T">>
  /\ Len(calls[c].transmitted) = calls[c].contentLength
  /\ calls' = [calls EXCEPT ![c].pc = "done", ![c].status = status,
                            ![c].respBody = ResponseBody(status),
                            ![c].pos = Len(calls[c].body),
                            ![c].err = PutObjectOutcome(status, ResponseBody(status)).err,
                            ![c].respClosed = TRUE]
  /\ UNCHANGED <<app, client, clock, uri, qry, hdr, disk, remote, dl, ul, job>>

\* A plausible slip: the request is sent again after a transport error.
TransportFailureRetry(c) ==
  /\ calls[c].pc = "sent"
  /\ calls' = [calls EXCEPT ![c].attempts = @ + 1]
  /\ UNCHANGED <<app, client, clock, uri, qry, hdr, disk, remote, dl, ul, job>>

\* client.Do returned an error (lines 55-57 and 110-112): no response at all.  This is
\* the only end of a PUT whose body is not ContentLength bytes long: the transport
\* refuses to send it.
TransportFailure(c) ==
  /\ calls[c].pc = "sent"
  /\ calls' = [calls EXCEPT ![c].pc = "done",
                            ![c].err = <<"r", "e", "q", "u", "e", "s", "t", " ", "f", "a", "i", "l", "e", "d", ":", " ">> \o TransportErrorText]
  /\ UNCHANGED <<app, client, clock, uri, qry, hdr, disk, remote, dl, ul, job>>

\* The call has returned; its caller may start another.
Return(c) ==
  /\ calls[c].pc = "done"
  /\ calls' = [calls EXCEPT ![c] = IdleCall]
  /\ UNCHANGED <<app, client, clock, uri, qry, hdr, disk, remote, dl, ul, job>>

(***************************************************************************)
(* The storage functions of storage.go and the refresh cycle that uploads. *)
(* DownloadDatabase and UploadDatabase talk to the remote store through    *)
(* the SDK client svc; each step of theirs that can fail is one action,    *)
(* its outcome an input.                                                   *)
(***************************************************************************)
\* A file, or an object of the remote store: there or not, and its bytes.
NoFile == [exists |-> FALSE, data |-> <<>>]

FileOf(data) == [exists |-> TRUE, data |-> data]

\* No DownloadDatabase call yet.  created: os.Create has made or truncated the file;
\* fetched: svc.GetObject has returned the object; body: the bytes of its body;
\* log: what log.Printf has written.
DownloadIdle ==
  [pc |-> "idle", err |-> "", created |-> FALSE, fetched |-> FALSE, body |-> <<>>,
   log |-> <<>>]

\* No UploadDatabase call yet.  puts: the PutObject requests made; size: what
\* file.Stat gave; contentLength: the ContentLength of the PutObject input.
UploadIdle ==
  [pc |-> "idle", err |-> "", puts |-> 0, size |-> 0, contentLength |-> 0,
   log |-> <<>>]

\* No refresh cycle yet.  out: what the cycle has printed.
JobIdle == [pc |-> "idle", out |-> <<>>]

StorageIdle ==
  /\ disk = NoFile
  /\ remote = NoFile
  /\ dl = DownloadIdle
  /\ ul = UploadIdle
  /\ job = JobIdle

DownloadFailed(call, text, err) ==
  [call EXCEPT !.pc = "done", !.err = err, !.log = Append(@, text)]

\* DownloadDatabase, lines 15-19: config.LoadDefaultConfig.
DownloadDatabaseLoadConfig(ok) ==
  /\ dl.pc \in {"idle", "done"}
  /\ dl' = IF ok THEN [DownloadIdle EXCEPT !.pc = "create"]
                 ELSE DownloadFailed(DownloadIdle, "Failed to load SDK configuration",
                                     "config error")
  /\ UNCHANGED <<app, client, clock, calls, uri, qry, hdr, disk, remote, ul, job>>

\* os.Create: the file is made if it is not there, and truncated if it is.
Create(file) == FileOf(<<>>)

\* DownloadDatabase, lines 26-31: os.Create(dbPath).
DownloadDatabaseCreate(ok) ==
  /\ dl.pc = "create"
  /\ IF ok
     THEN /\ disk' = Create(disk)
          /\ dl' = [dl EXCEPT !.pc = "fetch", !.created = TRUE]
     ELSE /\ disk' = disk
          /\ dl' = DownloadFailed(dl, "Failed to create database file", "create error")
  /\ UNCHANGED <<app, client, clock, calls, uri, qry, hdr, remote, ul, job>>

\* DownloadDatabase, lines 32-40: svc.GetObject.  It fails when the object is not
\* there, and may fail when it is.
DownloadDatabaseGetObject(ok) ==
  /\ dl.pc = "fetch"
  /\ ok => remote.exists
  /\ dl' = IF ok THEN [dl EXCEPT !.pc = "copy", !.fetched = TRUE, !.body = remote.data]
                 ELSE DownloadFailed(dl, "Failed to download database file",
                                     "get object error")
  /\ UNCHANGED <<app, client, clock, calls, uri, qry, hdr, disk, remote, ul, job>>

\* DownloadDatabase, lines 41-46: io.Copy(file, resp.Body) writes n bytes of the body
\* from the start of the file and fails, or writes them all.
DownloadDatabaseCopy(n, ok) ==
  /\ dl.pc = "copy"
  /\ n \in 0..Len(dl.body)
  /\ ok => n = Len(dl.body)
  /\ disk' = FileOf(SubSeq(dl.body, 1, n))
  /\ dl' = IF ok THEN [dl EXCEPT !.pc = "done"]
                 ELSE DownloadFailed(dl, "Failed to save database file", "copy error")
  /\ UNCHANGED <<app, client, clock, calls, uri, qry, hdr, remote, ul, job>>

UploadFailed(call, text, err) ==
  [call EXCEPT !.pc = "done", !.err = err, !.log = Append(@, text)]

\* UploadDatabase, lines 51-55: config.LoadDefaultConfig.  The refresh cycle is the
\* caller.
UploadDatabaseLoadConfig(ok) ==
  /\ job.pc = "upload"
  /\ ul.pc = "idle"
  /\ ul' = IF ok THEN [ul EXCEPT !.pc = "open"]
                 ELSE UploadFailed(ul, "Failed to load SDK configuration", "config error")
  /\ UNCHANGED <<app, client, clock, calls, uri, qry, hdr, disk, remote, dl, job>>

\* A plausible slip: the error of os.Open is logged and the upload goes on.
UploadDatabaseOpenGoesOn(ok) ==
  /\ ul.pc = "open"
  /\ ok => disk.exists
  /\ ul' = IF ok THEN [ul EXCEPT !.pc = "stat"]
                 ELSE [ul EXCEPT !.pc = "stat", !.err = "open error",
                                 !.log = Append(@, "Failed to open database file")]
  /\ UNCHANGED <<app, client, clock, calls, uri, qry, hdr, disk, remote, dl, job>>

\* UploadDatabase, lines 64-69: os.Open(dbPath).  It fails when the file is not
\* there, and may fail when it is.
UploadDatabaseOpen(ok) ==
  /\ ul.pc = "open"
  /\ ok => disk.exists
  /\ ul' = IF ok THEN [ul EXCEPT !.pc = "stat"]
                 ELSE UploadFailed(ul, "Failed to open database file", "open error")
  /\ UNCHANGED <<app, client, clock, calls, uri, qry, hdr, disk, remote, dl, job>>

\* UploadDatabase, lines 71-75: file.Stat().
UploadDatabaseStat(ok) ==
  /\ ul.pc = "stat"
  /\ ul' = IF ok THEN [ul EXCEPT !.pc = "put", !.size = Len(disk.data)]
                 ELSE UploadFailed(ul, "Failed to get file info", "stat error")
  /\ UNCHANGED <<app, client, clock, calls, uri, qry, hdr, disk, remote, dl, job>>

\* UploadDatabase, lines 77-88: svc.PutObject with the file as body and the size of
\* file.Stat as ContentLength.
UploadDatabasePutObject(ok) ==
  /\ ul.pc = "put"
  /\ IF ok
     THEN /\ remote' = FileOf(disk.data)
          /\ ul' = [ul EXCEPT !.pc = "done", !.puts = @ + 1, !.contentLength = ul.size]
     ELSE /\ remote' = remote
          /\ ul' = [UploadFailed(ul, "Failed to upload database file", "put object error")
                      EXCEPT !.puts = @ + 1, !.contentLength = ul.size]
  /\ UNCHANGED <<app, client, clock, calls, uri, qry, hdr, disk, dl, job>>

\* GetLatestOAA, lines 27-32: downloadFile(url).
GetLatestOAADownloadFile(ok) ==
  /\ job.pc \in {"idle", "done"}
  /\ job' = IF ok THEN [JobIdle EXCEPT !.pc = "process"]
                  ELSE [JobIdle EXCEPT !.pc = "done",
                                       !.out = <<"Failed to download CSV file">>]
  /\ UNCHANGED <<app, client, clock, calls, uri, qry, hdr, disk, remote, dl, ul>>

\* GetLatestOAA, lines 34-45: processCSV writes the database; upload is
\* cfg.UploadDatabase.
GetLatestOAAProcessCSV(ok, data, upload) ==
  /\ job.pc = "process"
  /\ IF ok
     THEN /\ disk' = FileOf(data)
          /\ job' = [job EXCEPT
                       !.pc = IF upload THEN "upload" ELSE "done",
                       !.out = Append(@, "CSV data successfully inserted or updated in the database.")]
          /\ ul' = IF upload THEN UploadIdle ELSE ul
     ELSE /\ disk' = disk
          /\ job' = [job EXCEPT !.pc = "done",
                                !.out = Append(@, "Failed to process CSV file")]
          /\ ul' = ul
  /\ UNCHANGED <<app, client, clock, calls, uri, qry, hdr, remote, dl>>

\* GetLatestOAA, lines 46-48: storage.UploadDatabase has returned; what it returned
\* is not looked at.
GetLatestOAAUploaded ==
  /\ job.pc = "upload"
  /\ ul.pc = "done"
  /\ job' = [job EXCEPT !.pc = "done",
                        !.out = Append(@, "Database successfully uploaded to Fly Storage.")]
  /\ UNCHANGED <<app, client, clock, calls, uri, qry, hdr, disk, remote, dl, ul>>

(***************************************************************************)
(* An upload and a download against a store that keeps objects.  The store *)
(* is the remote end of PutObject and GetObject: it keeps the body of a    *)
(* PUT it answers with 200 or 204 under the path of the request, and       *)
(* answers a GET with the bytes kept under its path.  The caller of        *)
(* GetObject copies the body into a file, as DownloadDatabase does.        *)
(***************************************************************************)
\* file: the bytes of the local file that is uploaded; objects: what the store
\* keeps, as [path, data] records; put: the paths a PUT of the file has stored;
\* fresh: the file at the path downloaded into; from: the path of the GET whose body
\* was copied there; afterPut: that GET was answered after a PUT of the file to its
\* path had been stored; copied: "no", "ok" (io.Copy returned nil) or "failed".
TripIdle ==
  [file |-> <<>>, objects |-> {}, put |-> {}, fresh |-> NoFile, from |-> <<>>,
   afterPut |-> FALSE, copied |-> "no"]

\* The path of the request a call has sent.
RequestPath(call) == URLParse(call.url).path

ObjectsAt(objects, path) == {o \in objects : o.path = path}

\* The store keeps data under path, in place of what it kept there.
Keep(objects, path, data) ==
  {o \in objects : o.path # path} \cup {[path |-> path, data |-> data]}

\* A plausible slip: the copy loses the first byte of the body.
CopySkipsFirst(body, n) == SubSeq(body, 2, n)

\* io.Copy(file, resp.Body) that has written n bytes.
Copy(body, n) == SubSeq(body, 1, n)

\* PutObject, lines 109-120, with the store as the remote end: it keeps the body
\* when it answers 200 or 204, and nothing when it refuses.
StoreAnswersPut(c, status) ==
  /\ calls[c].pc = "sent"
  /\ calls[c].method = <<"P", "U", "T">>
  /\ Len(calls[c].transmitted) = calls[c].contentLength
  /\ calls' = [calls EXCEPT ![c].pc = "done", ![c].status = status,
                            ![c].respBody = ResponseBody(status),
                            ![c].pos = Len(calls[c].body),
                            ![c].err = PutObjectOutcome(status, ResponseBody(status)).err,
                            ![c].respClosed = TRUE]
  /\ trip' = IF status \in {200, 204}
               THEN [trip EXCEPT
                       !.objects = Keep(@, RequestPath(calls[c]), calls[c].transmitted),
                       !.put = @ \cup {RequestPath(calls[c])}]
               ELSE trip
  /\ UNCHANGED <<client, clock, uri, qry, hdr, store, srv, reqs, boot, csv, bom, stats>>

\* GetObject, lines 54-70, with the store as the remote end: 200 and the bytes kept
\* under the path, 404 when there are none, or 500.
StoreAnswersGet(c, status) ==
  /\ calls[c].pc = "sent"
  /\ calls[c].method = <<"G", "E", "T">>
  /\ status = 200 => ObjectsAt(trip.objects, RequestPath(calls[c])) # {}
  /\ status = 404 => ObjectsAt(trip.objects, RequestPath(calls[c])) = {}
  /\ \E body \in IF status = 200
                   THEN {o.data : o \in ObjectsAt(trip.objects, RequestPath(calls[c]))}
                   ELSE {ResponseBody(status)} :
     \E out \in {GetObjectOutcome(calls[c].bucket, calls[c].key, status, body)} :
       calls' = [calls EXCEPT ![c].pc = "done", ![c].status = status,
                              ![c].respBody = body,
                              ![c].err = out.err, ![c].stream = out.stream,
                              ![c].respClosed = out.respClosed]
  /\ UNCHANGED <<client, clock, uri, qry, hdr, store, app>>

\* The caller of GetObject creates the file at the fresh path and copies the body
\* into it (storage.go, lines 26-46: os.Create, io.Copy, the deferred Close): n bytes
\* are written, all of them when io.Copy returns nil.
CopyToFreshPath(c, n, ok) ==
  /\ calls[c].pc = "done"
  /\ calls[c].method = <<"G", "E", "T">>
  /\ calls[c].stream = "open"
  /\ n \in 0..Len(calls[c].respBody)
  /\ ok => n = Len(calls[c].respBody)
  /\ trip' = [trip EXCEPT !.fresh = FileOf(Copy(calls[c].respBody, n)),
                          !.from = RequestPath(calls[c]),
                          !.afterPut = RequestPath(calls[c]) \in trip.put,
                          !.copied = IF ok THEN "ok" ELSE "failed"]
  /\ calls' = [calls EXCEPT ![c].stream = "closed", ![c].respClosed = TRUE]
  /\ UNCHANGED <<client, clock, uri, qry, hdr, store, srv, reqs, boot, csv, bom, stats>>

(***************************************************************************)
(* Server.handleRefresh (server/handlers.go).  Each request runs the       *)
(* handler in a goroutine of its own; an accepted request starts one more  *)
(* goroutine, the background refresh.  refreshing and lastRefreshAt are    *)
(* read and written under refreshMutex only, so taking the mutex and the   *)
(* section it protects are one step each.                                  *)
(***************************************************************************)
\* No value held: the mutex is free.
Unlocked == <<>>

\* The goroutine that holds refreshMutex: the handler of request r, or the
\* background refresh that r started.
HandlerOf(r) == <<"handler", r>>

RefreshOf(r) == <<"refresh", r>>

\* token: the environment variable REFRESH_TOKEN; alive: the process runs;
\* accepted and checked tell of the requests that have read refreshing since it was
\* last false at the start of the process or reset: how many of them set it, and
\* whether there was any.
SrvIdle ==
  [token |-> <<>>, refreshMutex |-> Unlocked, refreshing |-> FALSE, lastRefreshAt |-> 0,
   alive |-> TRUE, accepted |-> 0, checked |-> FALSE]

\* A request that has not arrived.  auth: its Authorization header; saw: what the
\* handler read from s.refreshing ("unread" before); status and body: the response;
\* go: the background goroutine ("none", "run", "ended", "deferred", "panicking",
\* "done", "crashed"); outcome: how GetLatestOAA ended; startedAt: the clock when the
\* goroutine was started.
NoRequest ==
  [pc |-> "idle", auth |-> <<>>, saw |-> "unread", status |-> 0,
   body |-> [status |-> "", message |-> ""],
   go |-> "none", outcome |-> "", startedAt |-> 0]

Requests == {1, 2}

ReqsIdle == [r \in Requests |-> NoRequest]

\* strings.HasPrefix
StringsHasPrefix(s, prefix) == Len(s) >= Len(prefix) /\ SubSeq(s, 1, Len(prefix)) = prefix

\* strings.TrimPrefix
TrimPrefix(s, prefix) ==
  IF StringsHasPrefix(s, prefix) THEN SubSeq(s, Len(prefix) + 1, Len(s)) ELSE s

\* subtle.ConstantTimeCompare: 1 when the two are of one length and equal, else 0.
ConstantTimeCompare(x, y) == IF Len(x) = Len(y) /\ x = y THEN 1 ELSE 0

\* A plausible slip: the token is looked for anywhere in the header.
AuthenticateAnyScheme(authHeader, expectedToken) ==
  IF expectedToken = <<>> THEN 500
  ELSE IF authHeader = <<>> THEN 401
  ELSE IF \E i \in 1..Len(authHeader) :
            SubSeq(authHeader, i, Len(authHeader)) = expectedToken THEN 0
  ELSE 401

\* handleRefresh, lines 251-270: the status the checks answer with, 0 when they pass.
Authenticate(authHeader, expectedToken) ==
  IF expectedToken = <<>> THEN 500
  ELSE IF authHeader = <<>> \/ ~StringsHasPrefix(authHeader, <<"B", "e", "a", "r", "e", "r", " ">>) THEN 401
  ELSE IF ConstantTimeCompare(TrimPrefix(authHeader, <<"B", "e", "a", "r", "e", "r", " ">>), expectedToken) # 1
    THEN 401
  ELSE 0

\* http.Error(w, text, code)
HttpError(text) == [status |-> "", message |-> text]

\* A request arrives at /refresh with its Authorization header.
Arrive(r, auth) ==
  /\ srv.alive
  /\ reqs[r].pc = "idle"
  /\ reqs' = [reqs EXCEPT ![r] = [NoRequest EXCEPT !.pc = "auth", !.auth = auth]]
  /\ UNCHANGED <<s3, store, srv, boot, csv, bom, stats, trip>>

\* handleRefresh, lines 251-270.
HandleRefreshAuth(r) ==
  /\ srv.alive
  /\ reqs[r].pc = "auth"
  /\ \E code \in {Authenticate(reqs[r].auth, srv.token)} :
       reqs' = [reqs EXCEPT ![r] =
         IF code = 500
           THEN [@ EXCEPT !.pc = "done", !.status = 500,
                          !.body = HttpError("Refresh endpoint not configured")]
         ELSE IF code = 401
           THEN [@ EXCEPT !.pc = "done", !.status = 401, !.body = HttpError("Unauthorized")]
         ELSE [@ EXCEPT !.pc = "lock"]]
  /\ UNCHANGED <<s3, store, srv, boot, csv, bom, stats, trip>>

\* handleRefresh, line 273: s.refreshMutex.Lock().
HandleRefreshLock(r) ==
  /\ srv.alive
  /\ reqs[r].pc = "lock"
  /\ srv.refreshMutex = Unlocked
  /\ srv' = [srv EXCEPT !.refreshMutex = HandlerOf(r)]
  /\ reqs' = [reqs EXCEPT ![r].pc = "locked"]
  /\ UNCHANGED <<s3, store, boot, csv, bom, stats, trip>>

\* A plausible slip: the flag is set whatever it was.
CheckRefreshingNeverBusy(server) ==
  [busy |-> FALSE,
   server |-> [server EXCEPT !.refreshing = TRUE, !.refreshMutex = Unlocked,
                             !.accepted = @ + 1, !.checked = TRUE]]

\* handleRefresh, lines 274-287, the section under the mutex: whether a refresh was
\* found in progress, and the server after it, with the flag set when it was not and
\* the mutex released.
CheckRefreshing(server) ==
  IF server.refreshing
    THEN [busy |-> TRUE,
          server |-> [server EXCEPT !.refreshMutex = Unlocked, !.checked = TRUE]]
    ELSE [busy |-> FALSE,
          server |-> [server EXCEPT !.refreshing = TRUE, !.refreshMutex = Unlocked,
                                    !.accepted = @ + 1, !.checked = TRUE]]

\* handleRefresh, lines 274-287.
HandleRefreshCheck(r) ==
  /\ srv.alive
  /\ reqs[r].pc = "locked"
  /\ srv.refreshMutex = HandlerOf(r)
  /\ \E chk \in {CheckRefreshing(srv)} :
       /\ srv' = chk.server
       /\ reqs' = [reqs EXCEPT ![r].saw = IF srv.refreshing THEN "set" ELSE "clear",
                               ![r].pc = IF chk.busy THEN "reject" ELSE "spawn"]
  /\ UNCHANGED <<s3, store, boot, csv, bom, stats, trip>>

\* handleRefresh, lines 277-284: 429 and the JSON body.
HandleRefreshReject(r) ==
  /\ srv.alive
  /\ reqs[r].pc = "reject"
  /\ reqs' = [reqs EXCEPT ![r].pc = "done", ![r].status = 429,
                          ![r].body = [status |-> "already_running",
                                       message |-> "Refresh already in progress"]]
  /\ UNCHANGED <<s3, store, srv, boot, csv, bom, stats, trip>>

\* handleRefresh, line 290: go func() { ... }().
HandleRefreshSpawn(r) ==
  /\ srv.alive
  /\ reqs[r].pc = "spawn"
  /\ reqs' = [reqs EXCEPT ![r].pc = "respond", ![r].go = "run", ![r].startedAt = clock]
  /\ UNCHANGED <<s3, store, srv, boot, csv, bom, stats, trip>>

\* handleRefresh, lines 310-316: 202 and the JSON body.
HandleRefreshAccept(r) ==
  /\ srv.alive
  /\ reqs[r].pc = "respond"
  /\ reqs' = [reqs EXCEPT ![r].pc = "done", ![r].status = 202,
                          ![r].body = [status |-> "accepted",
                                       message |-> "Refresh started in background"]]
  /\ UNCHANGED <<s3, store, srv, boot, csv, bom, stats, trip>>

\* How refresher.GetLatestOAA(ctx, s.config) may end: it returns nil, returns an
\* error, or panics.
RefreshOutcomes == {"ok", "error", "panic"}

\* The goroutine, lines 298-307: GetLatestOAA has ended; the deferred function is
\* still to run.
RefreshEnds(r, outcome) ==
  /\ srv.alive
  /\ reqs[r].go = "run"
  /\ reqs' = [reqs EXCEPT ![r].go = "ended", ![r].outcome = outcome]
  /\ UNCHANGED <<s3, store, srv, boot, csv, bom, stats, trip>>

\* The deferred function, line 292: s.refreshMutex.Lock().
RefreshDeferLock(r) ==
  /\ srv.alive
  /\ reqs[r].go = "ended"
  /\ srv.refreshMutex = Unlocked
  /\ srv' = [srv EXCEPT !.refreshMutex = RefreshOf(r)]
  /\ reqs' = [reqs EXCEPT ![r].go = "deferred"]
  /\ UNCHANGED <<s3, store, boot, csv, bom, stats, trip>>

\* The deferred function, lines 293-295, the server after it.
ResetRefreshing(server, now) ==
  [server EXCEPT !.refreshing = FALSE, !.lastRefreshAt = now, !.refreshMutex = Unlocked,
                 !.accepted = 0, !.checked = FALSE]

\* The deferred function, lines 293-295.  It does not recover: after it a goroutine
\* that panicked goes on panicking.
RefreshDeferReset(r) ==
  /\ srv.alive
  /\ reqs[r].go = "deferred"
  /\ srv.refreshMutex = RefreshOf(r)
  /\ srv' = ResetRefreshing(srv, clock)
  /\ reqs' = [reqs EXCEPT ![r].go = IF reqs[r].outcome = "panic" THEN "panicking"
                                                                  ELSE "done"]
  /\ UNCHANGED <<s3, store, boot, csv, bom, stats, trip>>

\* A panic that no deferred function recovers ends the process, with every goroutine.
RefreshPanicExits(r) ==
  /\ srv.alive
  /\ reqs[r].go = "panicking"
  /\ srv' = [srv EXCEPT !.alive = FALSE]
  /\ reqs' = [reqs EXCEPT ![r].go = "crashed"]
  /\ UNCHANGED <<s3, store, boot, csv, bom, stats, trip>>

\* The response is with the client and the goroutine, if any, is over: the request
\* is forgotten.
Leave(r) ==
  /\ srv.alive
  /\ reqs[r].pc = "done"
  /\ reqs[r].go \in {"none", "done"}
  /\ reqs' = [reqs EXCEPT ![r] = NoRequest]
  /\ UNCHANGED <<s3, store, srv, boot, csv, bom, stats, trip>>

(***************************************************************************)
(* main() (main.go, lines 310-381): the start of the process.  The         *)
(* download is the DownloadDatabase call of the storage functions above.   *)
(***************************************************************************)
\* pc: where main is; download: cfg.DownloadDatabase; dbOpen: database.New has
\* returned the connection; listening: the goroutine of httpServer.ListenAndServe
\* has been started; refresher: the goroutine of refresher.RunPeriodically has been
\* started (the three are never reset: they tell what has happened); served: requests the HTTP server has answered; cycles: refresh cycles the
\* periodic refresher has begun; exit: the exit status once the process has ended.
BootIdle ==
  [pc |-> "config", download |-> FALSE, dbOpen |-> FALSE, listening |-> FALSE,
   refresher |-> FALSE, served |-> 0, cycles |-> 0, exit |-> -1, log |-> <<>>]

\* log.Fatalf: the message is logged and the process exits with status 1.
Fatalf(b, text) == [b EXCEPT !.pc = "exited", !.exit = 1, !.log = Append(@, text)]

\* main, lines 312-315: config.NewConfig; the download is begun when it is configured.
MainConfig(download) ==
  /\ boot.pc = "config"
  /\ boot' = [boot EXCEPT
                !.download = download,
                !.pc = IF download THEN "download" ELSE "database",
                !.log = IF download THEN Append(@, "Downloading database from Fly Storage")
                                    ELSE @]
  /\ UNCHANGED <<s3, store, srv, reqs, csv, bom, stats, trip>>

\* A plausible slip: the error of the download is logged and main goes on.
MainDownloadedGoesOn ==
  /\ boot.pc = "download"
  /\ dl.pc = "done"
  /\ boot' = IF dl.err # ""
               THEN [boot EXCEPT !.pc = "database",
                                 !.log = Append(@, "Failed to download database")]
               ELSE [boot EXCEPT !.pc = "database"]
  /\ UNCHANGED <<s3, store, srv, reqs, csv, bom, stats, trip>>

\* main, lines 316-319: storage.DownloadDatabase has returned.
MainDownloaded ==
  /\ boot.pc = "download"
  /\ dl.pc = "done"
  /\ boot' = IF dl.err # ""
               THEN Fatalf(boot, "Failed to download database")
               ELSE [boot EXCEPT !.pc = "database"]
  /\ UNCHANGED <<s3, store, srv, reqs, csv, bom, stats, trip>>

\* main, lines 322-326: database.New(cfg.DatabasePath).  Opening creates the file
\* when there is none.
MainDatabase(ok) ==
  /\ boot.pc = "database"
  /\ IF ok
     THEN /\ boot' = [boot EXCEPT !.pc = "server", !.dbOpen = TRUE,
                                  !.log = Append(@, "Database connection established")]
          /\ disk' = IF disk.exists THEN disk ELSE FileOf(<<>>)
     ELSE /\ boot' = Fatalf(boot, "Failed to initialize database")
          /\ disk' = disk
  /\ UNCHANGED <<s3, remote, dl, ul, job, srv, reqs, csv, bom, stats, trip>>

\* main, lines 329-332: server.New(db, cfg).
MainServer(ok) ==
  /\ boot.pc = "server"
  /\ boot' = IF ok THEN [boot EXCEPT !.pc = "listen"]
                   ELSE Fatalf(boot, "Failed to create server")
  /\ UNCHANGED <<s3, store, srv, reqs, csv, bom, stats, trip>>

\* main, lines 335-348: the HTTP server is started in a goroutine.
MainListen ==
  /\ boot.pc = "listen"
  /\ boot' = [boot EXCEPT !.pc = "refresh", !.listening = TRUE]
  /\ UNCHANGED <<s3, store, srv, reqs, csv, bom, stats, trip>>

\* main, lines 355-362: the periodic refresher is started in a goroutine.
MainRefresher ==
  /\ boot.pc = "refresh"
  /\ boot' = [boot EXCEPT !.pc = "wait", !.refresher = TRUE]
  /\ UNCHANGED <<s3, store, srv, reqs, csv, bom, stats, trip>>

\* main, lines 343-348: ListenAndServe returns an error (the port is taken) and the
\* goroutine ends the process.
ListenFails ==
  /\ boot.listening
  /\ boot.pc # "exited"
  /\ boot.served = 0
  /\ boot' = Fatalf(boot, "HTTP server error")
  /\ UNCHANGED <<s3, store, srv, reqs, csv, bom, stats, trip>>

MaxServed == 1

\* The HTTP server answers a request.
Serve ==
  /\ boot.listening
  /\ boot.pc # "exited"
  /\ boot.served < MaxServed
  /\ boot' = [boot EXCEPT !.served = @ + 1]
  /\ UNCHANGED <<s3, store, srv, reqs, csv, bom, stats, trip>>

\* The periodic refresher begins a cycle.
PeriodicRefresh ==
  /\ boot.refresher
  /\ boot.pc # "exited"
  /\ boot.cycles < MaxServed
  /\ boot' = [boot EXCEPT !.cycles = @ + 1]
  /\ UNCHANGED <<s3, store, srv, reqs, csv, bom, stats, trip>>

\* main, lines 365-380: the interrupt signal; the goroutines are stopped and main
\* returns.
MainInterrupted ==
  /\ boot.pc = "wait"
  /\ boot' = [boot EXCEPT !.pc = "exited", !.exit = 0,
                          !.log = Append(@, "Server exited properly")]
  /\ UNCHANGED <<s3, store, srv, reqs, csv, bom, stats, trip>>

(***************************************************************************)
(* processCSV and removeBOM (refresher/main.go).  The CSV file is taken as *)
(* csv.Reader splits it: a sequence of records, each a sequence of fields, *)
(* the first record being the header.  The table outs_above_average is the *)
(* set of its rows; every statement on it is committed as it is executed,  *)
(* for processCSV opens no transaction.                                    *)
(***************************************************************************)
IsDigit(c) == c \in {"0", "1", "2", "3", "4", "5", "6", "7", "8", "9"}

DigitValue(c) == Ord(c) - Ord("0")

RECURSIVE DigitsValue(_)
DigitsValue(s) ==
  IF s = <<>> THEN 0 ELSE 10 * DigitsValue(SubSeq(s, 1, Len(s) - 1)) + DigitValue(s[Len(s)])

\* strconv.Atoi, for numbers that fit an int: [ok, value].
Atoi(s) ==
  LET signed == s # <<>> /\ s[1] \in {"+", "-"}
      digits == IF signed THEN Tail(s) ELSE s
  IN IF digits # <<>> /\ \A i \in 1..Len(digits) : IsDigit(digits[i])
       THEN [ok |-> TRUE,
             value |-> IF signed /\ s[1] = "-" THEN 0 - DigitsValue(digits)
                                               ELSE DigitsValue(digits)]
       ELSE [ok |-> FALSE, value |-> 0]

\* strings.TrimSuffix
TrimSuffix(s, suffix) ==
  IF Len(s) >= Len(suffix) /\ SubSeq(s, Len(s) - Len(suffix) + 1, Len(s)) = suffix
    THEN SubSeq(s, 1, Len(s) - Len(suffix))
    ELSE s

\* strconv.ParseFloat on the decimal integers the percentages of the CSV are;
\* every other text is refused here.  The value is the fraction num / den.
ParseFloat(s) ==
  LET n == Atoi(s)
  IN [ok |-> n.ok, num |-> n.value, den |-> 1]

\* parsePercentage, lines 227-238.
parsePercentage(percentageStr) ==
  LET trimmed == TrimSuffix(percentageStr, <<"%">>)
      parsed == ParseFloat(trimmed)
  IN IF ~parsed.ok THEN [ok |-> FALSE, num |-> 0, den |-> 1]
     ELSE IF trimmed # <<>> /\ trimmed[Len(trimmed)] = "-" THEN parsed
     ELSE [ok |-> TRUE, num |-> parsed.num, den |-> 100 * parsed.den]

\* The number of fields processCSV expects (line 102).
expectedFields == 16

\* CURRENT_DATE, as the database gives it during the call.
CurrentDate == <<"2", "0", "2", "5", "-", "0", "1", "-", "0", "1">>

\* processCSV, lines 164-210: what the fields of a record give: the row to insert, or
\* that the record is skipped.
ParseRecord(record) ==
  LET nameParts == Split(record[1], ",")
      playerID == Atoi(record[2])
      oaa == Atoi(record[7])
      actual == parsePercentage(record[14])
      estimated == parsePercentage(record[15])
      diff == parsePercentage(record[16])
  IN IF Len(record) # expectedFields \/ Len(nameParts) # 2 \/ ~playerID.ok \/ ~oaa.ok
          \/ ~actual.ok \/ ~estimated.ok \/ ~diff.ok
       THEN [ok |-> FALSE]
       ELSE [ok |-> TRUE,
             row |-> [player_id |-> playerID.value,
                      first_name |-> TrimSpace(nameParts[2]),
                      last_name |-> TrimSpace(nameParts[1]),
                      full_name |-> TrimSpace(nameParts[2]) \o <<" ">>
                                      \o TrimSpace(nameParts[1]),
                      team |-> record[3],
                      oaa |-> oaa.value,
                      actual_success_rate |-> <<actual.num, actual.den>>,
                      estimated_success_rate |-> <<estimated.num, estimated.den>>,
                      diff_success_rate |-> <<diff.num, diff.den>>,
                      date |-> CurrentDate]]

\* INSERT ... ON CONFLICT(player_id, date) DO UPDATE, lines 135-147 and 213.
Upsert(table, row) ==
  {t \in table : ~(t.player_id = row.player_id /\ t.date = row.date)} \cup {row}

\* processCSV returns an error: what has been executed stays.
ReturnError(call, text) == [call EXCEPT !.pc = "done", !.err = text]

\* No processCSV call.  file: the records of the CSV file; rest: the records not yet
\* read; table: the rows of outs_above_average; before: the rows at the call;
\* executed: the statements stmt.Exec has run.
CsvIdle ==
  [pc |-> "idle", file |-> <<>>, rest |-> <<>>, table |-> {}, before |-> {},
   executed |-> 0, err |-> ""]

\* processCSV, lines 83-153: the file is opened, the header read and checked, the
\* database opened, the table created and the statement prepared.  fail names the
\* step that fails for a reason outside the file, if any.
ProcessCSVBegin(fail) ==
  /\ csv.pc = "idle"
  /\ \E call \in {[csv EXCEPT !.before = csv.table, !.executed = 0, !.err = ""]} :
       csv' =
         IF fail = "open" THEN ReturnError(call, "open error")
         ELSE IF call.file = <<>>
           THEN ReturnError(call, "failed to read CSV header: EOF")
         ELSE IF Len(call.file[1]) # expectedFields
           THEN ReturnError(call, "unexpected number of header fields")
         ELSE IF fail = "database" THEN ReturnError(call, "database error")
         ELSE [call EXCEPT !.pc = "loop", !.rest = Tail(call.file)]
  /\ UNCHANGED <<s3, store, srv, reqs, boot, bom, stats, trip>>

\* processCSV, lines 156-217: one turn of the loop.  reader.Read gives io.EOF at the
\* end, and an error for a record that has not the number of fields of the header
\* (csv.ErrFieldCount); execOk: stmt.Exec succeeds.
ProcessCSVRecord(execOk) ==
  /\ csv.pc = "loop"
  /\ csv' =
       IF csv.rest = <<>> THEN [csv EXCEPT !.pc = "done"]
       ELSE IF Len(Head(csv.rest)) # Len(csv.file[1])
         THEN ReturnError(csv, "error reading CSV record: wrong number of fields")
       ELSE IF ~ParseRecord(Head(csv.rest)).ok
         THEN [csv EXCEPT !.rest = Tail(@)]
       ELSE IF ~execOk THEN ReturnError(csv, "exec error")
       ELSE [csv EXCEPT !.rest = Tail(@), !.executed = @ + 1,
                        !.table = Upsert(@, ParseRecord(Head(csv.rest)).row)]
  /\ UNCHANGED <<s3, store, srv, reqs, boot, bom, stats, trip>>

(***************************************************************************)
(* removeBOM.  A byte is a string of two hexadecimal digits; the reader is *)
(* the one of strings.NewReader and of os.File: Read fills the buffer as   *)
(* far as the bytes left reach.                                            *)
(***************************************************************************)
ByteOrderMark == <<"EF", "BB", "BF">>

\* r.Read(b) with len(b) = n: [n, err, reader]; io.EOF when nothing is left.
Read(reader, n) ==
  LET left == Len(reader.data) - reader.pos
      got == IF left < n THEN left ELSE n
  IN IF left = 0
       THEN [bytes |-> <<>>, err |-> "EOF", reader |-> reader]
       ELSE [bytes |-> SubSeq(reader.data, reader.pos + 1, reader.pos + got),
             err |-> "", reader |-> [reader EXCEPT !.pos = @ + got]]

\* make([]byte, n) after n bytes of it were written by Read: the rest is zero.
Buffer(bytes, n) == bytes \o [i \in 1..(n - Len(bytes)) |-> "00"]

\* removeBOM, lines 240-252: the readers the result reads from, in turn
\* (io.MultiReader; r alone when r is returned).
removeBOM(r) ==
  LET rd == Read(r, 3)
      b == Buffer(rd.bytes, 3)
  IN IF rd.err # "" THEN <<rd.reader>>
     ELSE IF b[1] = "EF" /\ b[2] = "BB" /\ b[3] = "BF" THEN <<rd.reader>>
     ELSE <<NewReader(b, 0), rd.reader>>

\* io.ReadAll of the readers in turn.
RECURSIVE ReadAll(_)
ReadAll(readers) ==
  IF readers = <<>> THEN <<>> ELSE ReadToEnd(Head(readers)) \o ReadAll(Tail(readers))

BomIdle == [input |-> <<>>, out |-> <<>>, done |-> FALSE]

\* io.ReadAll(removeBOM(strings.NewReader(input)))
RemoveBOMCall ==
  /\ ~bom.done
  /\ bom' = [bom EXCEPT !.out = ReadAll(removeBOM(NewReader(bom.input, 0))), !.done = TRUE]
  /\ UNCHANGED <<s3, store, srv, reqs, boot, csv, stats, trip>>

(***************************************************************************)
(* MapStatsByPlayerID (models/types.go).  A Stat is a record; its Date is  *)
(* a day number.                                                           *)
(***************************************************************************)
SparklinePoint(stat) == [Date |-> stat.Date, OAA |-> stat.OAA]

\* The first stat of a player: lines 112-119.
NewPlayerStats(stat) ==
  [PlayerID |-> stat.PlayerID, Name |-> stat.Name, Position |-> stat.Position,
   LatestOAA |-> stat.OAA, OAAHistory |-> <<SparklinePoint(stat)>>]

\* A later stat of a player, lines 120-126: its OAA is put in LatestOAA, whatever
\* its Date.
UpdatePlayerStats(entry, stat) ==
  [entry EXCEPT !.LatestOAA = stat.OAA,
                !.OAAHistory = Append(@, SparklinePoint(stat)),
                !.Position = IF stat.Position # "N/A" THEN stat.Position ELSE @]

\* The loop of lines 110-127 over the first n stats: statsMap, a function from the
\* player ids met to their entries.
RECURSIVE StatsMap(_, _)
StatsMap(list, n) ==
  IF n = 0 THEN [id \in {} |-> <<>>]
  ELSE LET statsMap == StatsMap(list, n - 1)
           stat == list[n]
       IN IF stat.PlayerID \in DOMAIN statsMap
            THEN [statsMap EXCEPT ![stat.PlayerID] = UpdatePlayerStats(@, stat)]
            ELSE [id \in DOMAIN statsMap \cup {stat.PlayerID} |->
                    IF id = stat.PlayerID THEN NewPlayerStats(stat) ELSE statsMap[id]]

\* sort.Slice with the less function of lines 136-138, as the insertion sort that Go
\* runs on short slices: x goes before the first entry with a smaller LatestOAA.
RECURSIVE InsertByLatestOAA(_, _)
InsertByLatestOAA(x, sorted) ==
  IF sorted = <<>> THEN <<x>>
  ELSE IF x.LatestOAA > Head(sorted).LatestOAA THEN <<x>> \o sorted
  ELSE <<Head(sorted)>> \o InsertByLatestOAA(x, Tail(sorted))

RECURSIVE SortByLatestOAA(_)
SortByLatestOAA(list) ==
  IF list = <<>> THEN <<>>
  ELSE InsertByLatestOAA(list[Len(list)], SortByLatestOAA(SubSeq(list, 1, Len(list) - 1)))

\* MapStatsByPlayerID, lines 107-141.  order: the order in which `range statsMap`
\* visits the map (line 131).
MapStatsByPlayerID(list, order) ==
  LET statsMap == StatsMap(list, Len(list))
  IN SortByLatestOAA([i \in 1..Len(order) |-> statsMap[order[i]]])

StatsIdle == [input |-> <<>>, out |-> <<>>, done |-> FALSE]

\* MapStatsByPlayerID(stats.input)
MapStatsCall(order) ==
  /\ ~stats.done
  /\ stats' = [stats EXCEPT !.out = MapStatsByPlayerID(stats.input, order), !.done = TRUE]
  /\ UNCHANGED <<s3, store, srv, reqs, boot, csv, bom, trip>>

\* Nothing of the application has run: the state the specifications of the client
\* and of the storage functions keep.
AppIdle ==
  /\ srv = SrvIdle
  /\ reqs = ReqsIdle
  /\ boot = BootIdle
  /\ csv = CsvIdle
  /\ bom = BomIdle
  /\ stats = StatsIdle
  /\ trip = TripIdle

(***************************************************************************)
(* Spec: one client, its callers, the clock.                               *)
(***************************************************************************)
\* The clock starts two seconds before 2025-01-01T00:00:00Z and runs MaxTicks seconds.
ClockStart == 1735689598

MaxTicks == 2

\* Spec has one caller; SpecTwoCalls has two, calling at once.
Callers == {1}

TwoCallers == {1, 2}

\* The clients tried: the one of the tests, one with a trailing slash and the
\* default region, one made from unset credentials, and one whose endpoint
\* url.Parse rejects.
Clients ==
  { NewS3Client(<<"A", "K", "I", "D", "E", "X", "A", "M", "P", "L", "E">>, <<"w", "J", "a", "l", "r", "/", "K", "7">>, <<"u", "s", "-", "e", "a", "s", "t", "-", "1">>, <<"h", "t", "t", "p", "s", ":", "/", "/", "e", "x", "a", "m", "p", "l", "e", ".", "c", "o", "m">>),
    NewS3Client(<<"t", "i", "d", "_", "x">>, <<"t", "s", "e", "c", "_", "y">>, <<"a", "u", "t", "o">>, <<"h", "t", "t", "p", ":", "/", "/", "l", "o", "c", "a", "l", "h", "o", "s", "t", ":", "9", "0", "0", "0", "/">>),
    NewS3Client(<<>>, <<>>, <<"a", "u", "t", "o">>, <<"h", "t", "t", "p", "s", ":", "/", "/", "e", "x", "a", "m", "p", "l", "e", ".", "c", "o", "m">>),
    NewS3Client(<<"t", "i", "d", "_", "x">>, <<"t", "s", "e", "c", "_", "y">>, <<"a", "u", "t", "o">>, <<":", "9", "0", "0", "0">>) }

Buckets == {<<"o", "a", "a", "m", "o", "n", "i", "t", "o", "r">>}

Keys == {<<"o", "a", "a", "m", "o", "n", "i", "t", "o", "r", ".", "d", "b">>, <<"a", " ", "b", "/", "c", "+", "d">>}

Payloads == {<<>>, <<"S", "Q", "L", "i", "t", "e">>}

ReaderFailures == {"none", "seek1", "hash", "seek2"}

\* The size argument of PutObject: the length of the file, or a wrong one.
Sizes(data) == {Len(data), Len(data) + 1}

UriIdle == [bucket |-> <<>>, key |-> <<>>, out |-> <<>>, done |-> FALSE]

QryIdle == [raw |-> <<>>, out |-> <<>>, done |-> FALSE]

HdrIdle == [header |-> NoHeader, canonical |-> <<>>, signed |-> <<>>, done |-> FALSE]

\* No call on the client: the state the specifications of single functions keep.
ClientIdle ==
  /\ client = NewS3Client(<<>>, <<>>, <<>>, <<>>)
  /\ clock = ClockStart
  /\ calls = [c \in Callers |-> IdleCall]

Init ==
  /\ client \in Clients
  /\ clock = ClockStart
  /\ calls = [c \in Callers |-> IdleCall]
  /\ uri = UriIdle
  /\ qry = QryIdle
  /\ hdr = HdrIdle
  /\ StorageIdle
  /\ AppIdle

Tick ==
  /\ clock < ClockStart + MaxTicks
  /\ clock' = clock + 1
  /\ UNCHANGED <<app, client, calls, uri, qry, hdr, disk, remote, dl, ul, job>>

Next ==
  \/ \E c \in DOMAIN calls, bucket \in Buckets, key \in Keys : GetObjectSend(c, bucket, key)
  \/ \E c \in DOMAIN calls, status \in Statuses : GetObjectResponse(c, status)
  \/ \E c \in DOMAIN calls, bucket \in Buckets, key \in Keys, data \in Payloads,
        fail \in ReaderFailures :
       \E startPos \in {0, Len(data)}, size \in Sizes(data) :
         PutObjectSend(c, bucket, key, data, startPos, size, fail)
  \/ \E c \in DOMAIN calls, status \in Statuses : PutObjectResponse(c, status)
  \/ \E c \in DOMAIN calls : TransportFailure(c)
  \/ \E c \in DOMAIN calls : Return(c)
  \/ Tick

Spec == Init /\ [][Next]_vars

(***************************************************************************)
(* SpecTwoCalls: two callers on one client, with one key and one payload.  *)
(***************************************************************************)
TheKey == <<"o", "a", "a", "m", "o", "n", "i", "t", "o", "r", ".", "d", "b">>

ThePayload == <<"S", "Q", "L", "i", "t", "e">>

InitTwoCalls ==
  /\ client \in {cl \in Clients : URLParse(cl.EndpointURL).ok}
  /\ clock = ClockStart
  /\ calls = [c \in TwoCallers |-> IdleCall]
  /\ uri = UriIdle
  /\ qry = QryIdle
  /\ hdr = HdrIdle
  /\ StorageIdle
  /\ AppIdle

NextTwoCalls ==
  \/ \E c \in DOMAIN calls, bucket \in Buckets : GetObjectSend(c, bucket, TheKey)
  \/ \E c \in DOMAIN calls, status \in Statuses : GetObjectResponse(c, status)
  \/ \E c \in DOMAIN calls, bucket \in Buckets :
       PutObjectSend(c, bucket, TheKey, ThePayload, 0, Len(ThePayload), "none")
  \/ \E c \in DOMAIN calls, status \in Statuses : PutObjectResponse(c, status)
  \/ \E c \in DOMAIN calls : TransportFailure(c)
  \/ \E c \in DOMAIN calls : Return(c)
  \/ Tick

SpecTwoCalls == InitTwoCalls /\ [][NextTwoCalls]_vars

(***************************************************************************)
(* SpecURI: buildCanonicalURI over every key of bounded length.            *)
(***************************************************************************)
MaxKeyLen == 3

KeyAlphabet == {"a", "Z", "7", "/", " ", "+", "%", "~"}

RECURSIVE SeqsUpTo(_, _)
SeqsUpTo(S, n) ==
  IF n = 0 THEN {<<>>}
  ELSE LET shorter == SeqsUpTo(S, n - 1)
       IN shorter \cup {Append(s, c) : s \in {t \in shorter : Len(t) = n - 1}, c \in S}

UriBuckets == {<<"m", "y", "-", "b", "u", "c", "k", "e", "t">>, <<"o", "a", "a", "m", "o", "n", "i", "t", "o", "r">>}

\* The keys tried: every key over KeyAlphabet up to MaxKeyLen, and the keys of the tests.
UriKeys ==
  SeqsUpTo(KeyAlphabet, MaxKeyLen) \cup {<<"f", "o", "l", "d", "e", "r", "/", "a", " ", "b", "/", "c", "+", "d", ".", "t", "x", "t">>, <<"o", "a", "a", "m", "o", "n", "i", "t", "o", "r", ".", "d", "b">>}

InitURI ==
  /\ uri \in [bucket : UriBuckets, key : UriKeys, out : {<<>>}, done : {FALSE}]
  /\ qry = QryIdle
  /\ hdr = HdrIdle
  /\ StorageIdle
  /\ ClientIdle
  /\ AppIdle

CanonicalURICall ==
  /\ ~uri.done
  /\ uri' = [uri EXCEPT !.out = buildCanonicalURI(uri.bucket, uri.key), !.done = TRUE]
  /\ UNCHANGED <<app, client, clock, calls, qry, hdr, disk, remote, dl, ul, job>>

NextURI == CanonicalURICall

SpecURI == InitURI /\ [][NextURI]_vars

(***************************************************************************)
(* SpecQuery: canonicalQueryString over raw queries of bounded size.       *)
(***************************************************************************)
MaxQueryParts == 2

RawKeys == {<<"a">>, <<"a", "-">>, <<"a", "%", "2", "F">>, <<"b">>, <<"b", "+", "c">>}

RawValues == {<<>>, <<"1">>, <<"-">>, <<"%", "2", "F">>, <<"h", "i", "%", "2", "0", "t", "h", "e", "r", "e">>, <<"%", "z", "z">>, <<"x", ";", "y">>}

\* One &-separated part: key=value, a key alone, or nothing.
RawParts ==
  {k \o <<"=">> \o v : k \in RawKeys, v \in RawValues} \cup RawKeys \cup {<<>>}

RECURSIVE RawQueriesOf(_)
RawQueriesOf(n) ==
  IF n = 0 THEN {<<>>}
  ELSE IF n = 1 THEN RawParts
  ELSE {q \o <<"&">> \o p : q \in RawQueriesOf(n - 1), p \in RawParts}

RawQueries ==
  UNION {RawQueriesOf(n) : n \in 0..MaxQueryParts}
    \cup {<<"z", "=", "l", "a", "s", "t", "&", "b", "=", "h", "i", "%", "2", "0", "t", "h", "e", "r", "e", "&", "a", "=", "1", "&", "b", "=", "s", "e", "c", "o", "n", "d", "&", "e", "m", "p", "t", "y", "=">>}

InitQuery ==
  /\ qry \in [raw : RawQueries, out : {<<>>}, done : {FALSE}]
  /\ uri = UriIdle
  /\ hdr = HdrIdle
  /\ StorageIdle
  /\ ClientIdle
  /\ AppIdle

CanonicalQueryCall ==
  /\ ~qry.done
  /\ qry' = [qry EXCEPT !.out = canonicalQueryString(qry.raw), !.done = TRUE]
  /\ UNCHANGED <<app, client, clock, calls, uri, hdr, disk, remote, dl, ul, job>>

NextQuery == CanonicalQueryCall

SpecQuery == InitQuery /\ [][NextQuery]_vars

(***************************************************************************)
(* SpecHeaders: the two renderings over header maps of bounded size.       *)
(***************************************************************************)
MaxHeaderCount == 3

\* Field names: set through Header.Set (canonical form) and, for "host" and
\* "x-custom", written into the map directly.
HeaderNamePool == {<<"H", "o", "s", "t">>, <<"X", "-", "A", "m", "z", "-", "D", "a", "t", "e">>, <<"C", "o", "n", "t", "e", "n", "t", "-", "T", "y", "p", "e">>, <<"h", "o", "s", "t">>, <<"x", "-", "c", "u", "s", "t", "o", "m">>}

\* Value lists: plain, with surrounding blanks, with a colon, several values, empty.
HeaderValuePool == {<<<<"v">>>>, <<<<" ", "a", ":", "b", "\t">>>>, <<<<"w">>, <<"z">>>>, <<<<>>>>}

HeaderMaps ==
  UNION {[names -> HeaderValuePool] :
           names \in {n \in SUBSET HeaderNamePool : Cardinality(n) <= MaxHeaderCount}}

InitHeaders ==
  /\ hdr \in [header : HeaderMaps, canonical : {<<>>}, signed : {<<>>}, done : {FALSE}]
  /\ uri = UriIdle
  /\ qry = QryIdle
  /\ StorageIdle
  /\ ClientIdle
  /\ AppIdle

RenderHeaders ==
  /\ ~hdr.done
  /\ \E o1 \in RangeOrders(hdr.header) :
     \E canonical \in {getCanonicalHeaders(hdr.header, o1)} :
     \E o2 \in RangeOrders(hdr.header) :
       hdr' = [hdr EXCEPT !.canonical = canonical,
                          !.signed = getSignedHeaders(hdr.header, o2),
                          !.done = TRUE]
  /\ UNCHANGED <<app, client, clock, calls, uri, qry, disk, remote, dl, ul, job>>

NextHeaders == RenderHeaders

SpecHeaders == InitHeaders /\ [][NextHeaders]_vars

(***************************************************************************)
(* SpecStorage: the database file, the remote object, DownloadDatabase and *)
(* the refresh cycles with their uploads.                                  *)
(***************************************************************************)
\* The contents a database file or the remote object may have.
Contents == {<<"S", "Q", "L", "i", "t", "e">>, <<"D", "B">>}

InitStorage ==
  /\ disk \in {NoFile} \cup {FileOf(d) : d \in Contents}
  /\ remote \in {NoFile} \cup {FileOf(d) : d \in Contents}
  /\ dl = DownloadIdle
  /\ ul = UploadIdle
  /\ job = JobIdle
  /\ uri = UriIdle
  /\ qry = QryIdle
  /\ hdr = HdrIdle
  /\ ClientIdle
  /\ AppIdle

NextStorage ==
  \/ \E ok \in BOOLEAN : DownloadDatabaseLoadConfig(ok)
  \/ \E ok \in BOOLEAN : DownloadDatabaseCreate(ok)
  \/ \E ok \in BOOLEAN : DownloadDatabaseGetObject(ok)
  \/ \E n \in 0..Len(dl.body), ok \in BOOLEAN : DownloadDatabaseCopy(n, ok)
  \/ \E ok \in BOOLEAN : UploadDatabaseLoadConfig(ok)
  \/ \E ok \in BOOLEAN : UploadDatabaseOpen(ok)
  \/ \E ok \in BOOLEAN : UploadDatabaseStat(ok)
  \/ \E ok \in BOOLEAN : UploadDatabasePutObject(ok)
  \/ \E ok \in BOOLEAN : GetLatestOAADownloadFile(ok)
  \/ \E ok \in BOOLEAN, data \in Contents, upload \in BOOLEAN :
       GetLatestOAAProcessCSV(ok, data, upload)
  \/ GetLatestOAAUploaded

SpecStorage == InitStorage /\ [][NextStorage]_vars

(***************************************************************************)
(* SpecRoundTrip: one caller uploads a file with PutObject and downloads   *)
(* with GetObject, the store keeping what it has accepted.                 *)
(***************************************************************************)
\* The application but for trip, and the functions called singly, at rest.
RestIdle ==
  /\ uri = UriIdle
  /\ qry = QryIdle
  /\ hdr = HdrIdle
  /\ StorageIdle

\* The contents of the local file: empty, and two that differ in length.
TripFiles == {<<>>, <<"D", "B">>, <<"S", "Q", "L", "i", "t", "e">>}

\* What the store may keep before the upload under the path of the first key.
TripObjects ==
  {{}, {[path |-> buildCanonicalURI(<<"o", "a", "a", "m", "o", "n", "i", "t", "o", "r">>, <<"o", "a", "a", "m", "o", "n", "i", "t", "o", "r", ".", "d", "b">>), data |-> <<"O", "L", "D">>]}}

InitRoundTrip ==
  /\ client \in {cl \in Clients : URLParse(cl.EndpointURL).ok /\ cl.AccessKeyID # <<>>}
  /\ clock = ClockStart
  /\ calls = [c \in Callers |-> IdleCall]
  /\ RestIdle
  /\ srv = SrvIdle
  /\ reqs = ReqsIdle
  /\ boot = BootIdle
  /\ csv = CsvIdle
  /\ bom = BomIdle
  /\ stats = StatsIdle
  /\ trip \in {[TripIdle EXCEPT !.file = f, !.objects = o] : f \in TripFiles, o \in TripObjects}

NextRoundTrip ==
  \/ \E c \in DOMAIN calls, bucket \in Buckets, key \in Keys, startPos \in {0, Len(trip.file)} :
       PutObjectSend(c, bucket, key, trip.file, startPos, Len(trip.file), "none")
  \/ \E c \in DOMAIN calls, status \in {200, 204, 403, 500} : StoreAnswersPut(c, status)
  \/ \E c \in DOMAIN calls, bucket \in Buckets, key \in Keys : GetObjectSend(c, bucket, key)
  \/ \E c \in DOMAIN calls, status \in {200, 404, 500} : StoreAnswersGet(c, status)
  \/ \E c \in DOMAIN calls, ok \in BOOLEAN :
       \E n \in 0..Len(calls[c].respBody) : CopyToFreshPath(c, n, ok)
  \/ \E c \in DOMAIN calls : TransportFailure(c)
  \/ \E c \in DOMAIN calls : Return(c)
  \/ Tick

SpecRoundTrip == InitRoundTrip /\ [][NextRoundTrip]_vars

(***************************************************************************)
(* SpecEndpoints: the calls of one caller on clients whose endpoint URL    *)
(* has a trailing slash, a path, or neither.                               *)
(***************************************************************************)
Endpoints ==
  {<<"h", "t", "t", "p", "s", ":", "/", "/", "e", "x", "a", "m", "p", "l", "e", ".", "c", "o", "m">>, <<"h", "t", "t", "p", "s", ":", "/", "/", "e", "x", "a", "m", "p", "l", "e", ".", "c", "o", "m", "/">>, <<"h", "t", "t", "p", "s", ":", "/", "/", "e", "x", "a", "m", "p", "l", "e", ".", "c", "o", "m", "/", "b", "a", "s", "e">>,
   <<"h", "t", "t", "p", ":", "/", "/", "l", "o", "c", "a", "l", "h", "o", "s", "t", ":", "9", "0", "0", "0", "/", "b", "a", "s", "e", "/">>}

EndpointKeys == {<<"o", "a", "a", "m", "o", "n", "i", "t", "o", "r", ".", "d", "b">>, <<"a", " ", "b", "/", "c", "+", "d">>, <<"5", "0", "%", "/", "/", "x">>}

InitEndpoints ==
  /\ client \in {NewS3Client(<<"t", "i", "d", "_", "x">>, <<"t", "s", "e", "c", "_", "y">>, <<"a", "u", "t", "o">>, e) : e \in Endpoints}
  /\ clock = ClockStart
  /\ calls = [c \in Callers |-> IdleCall]
  /\ RestIdle
  /\ AppIdle

NextEndpoints ==
  \/ \E c \in DOMAIN calls, bucket \in Buckets, key \in EndpointKeys :
       GetObjectSend(c, bucket, key)
  \/ \E c \in DOMAIN calls, status \in Statuses : GetObjectResponse(c, status)
  \/ \E c \in DOMAIN calls, bucket \in Buckets, key \in EndpointKeys :
       PutObjectSend(c, bucket, key, ThePayload, 0, Len(ThePayload), "none")
  \/ \E c \in DOMAIN calls, status \in Statuses : PutObjectResponse(c, status)
  \/ \E c \in DOMAIN calls : TransportFailure(c)
  \/ \E c \in DOMAIN calls : Return(c)
  \/ Tick

SpecEndpoints == InitEndpoints /\ [][NextEndpoints]_vars

(***************************************************************************)
(* SpecRefresh: requests to /refresh and the refreshes they start.         *)
(* SpecRefreshLive adds what the scheduler and sync.Mutex give: a          *)
(* goroutine that can run does, and one that waits for the mutex gets it.  *)
(***************************************************************************)
RefreshToken == <<"s", "3", "c", "r", "3", "t">>

\* The Authorization headers tried: none, the right one, a wrong token, no scheme,
\* the scheme in lower case, another scheme, an empty token.
AuthHeaders ==
  {<<>>, <<"B", "e", "a", "r", "e", "r", " ", "s", "3", "c", "r", "3", "t">>, <<"B", "e", "a", "r", "e", "r", " ", "w", "r", "o", "n", "g">>, <<"s", "3", "c", "r", "3", "t">>, <<"b", "e", "a", "r", "e", "r", " ", "s", "3", "c", "r", "3", "t">>,
   <<"B", "a", "s", "i", "c", " ", "s", "3", "c", "r", "3", "t">>, <<"B", "e", "a", "r", "e", "r", " ">>}

InitRefresh ==
  /\ ClientIdle
  /\ RestIdle
  /\ srv \in {[SrvIdle EXCEPT !.token = t] : t \in {<<>>, RefreshToken}}
  /\ reqs = ReqsIdle
  /\ boot = BootIdle
  /\ csv = CsvIdle
  /\ bom = BomIdle
  /\ stats = StatsIdle
  /\ trip = TripIdle

NextRefresh ==
  \/ \E r \in Requests, auth \in AuthHeaders : Arrive(r, auth)
  \/ \E r \in Requests : HandleRefreshAuth(r)
  \/ \E r \in Requests : HandleRefreshLock(r)
  \/ \E r \in Requests : HandleRefreshCheck(r)
  \/ \E r \in Requests : HandleRefreshReject(r)
  \/ \E r \in Requests : HandleRefreshSpawn(r)
  \/ \E r \in Requests : HandleRefreshAccept(r)
  \/ \E r \in Requests, outcome \in RefreshOutcomes : RefreshEnds(r, outcome)
  \/ \E r \in Requests : RefreshDeferLock(r)
  \/ \E r \in Requests : RefreshDeferReset(r)
  \/ \E r \in Requests : RefreshPanicExits(r)
  \/ \E r \in Requests : Leave(r)
  \/ Tick

SpecRefresh == InitRefresh /\ [][NextRefresh]_vars

RefreshFairness ==
  \A r \in Requests :
    /\ WF_vars(HandleRefreshCheck(r))
    /\ SF_vars(RefreshDeferLock(r))
    /\ WF_vars(RefreshDeferReset(r))
    /\ WF_vars(RefreshPanicExits(r))

SpecRefreshLive == InitRefresh /\ [][NextRefresh]_vars /\ RefreshFairness

(***************************************************************************)
(* SpecMain: the start of the process, with the download.                  *)
(***************************************************************************)
InitMain ==
  /\ ClientIdle
  /\ uri = UriIdle
  /\ qry = QryIdle
  /\ hdr = HdrIdle
  /\ disk \in {NoFile} \cup {FileOf(d) : d \in Contents}
  /\ remote \in {NoFile} \cup {FileOf(d) : d \in Contents}
  /\ dl = DownloadIdle
  /\ ul = UploadIdle
  /\ job = JobIdle
  /\ srv = SrvIdle
  /\ reqs = ReqsIdle
  /\ boot = BootIdle
  /\ csv = CsvIdle
  /\ bom = BomIdle
  /\ stats = StatsIdle
  /\ trip = TripIdle

NextMain ==
  \/ \E download \in BOOLEAN : MainConfig(download)
  \/ boot.pc = "download" /\ dl.pc = "idle" /\ \E ok \in BOOLEAN : DownloadDatabaseLoadConfig(ok)
  \/ boot.pc = "download" /\ \E ok \in BOOLEAN : DownloadDatabaseCreate(ok)
  \/ boot.pc = "download" /\ \E ok \in BOOLEAN : DownloadDatabaseGetObject(ok)
  \/ boot.pc = "download" /\ \E n \in 0..Len(dl.body), ok \in BOOLEAN : DownloadDatabaseCopy(n, ok)
  \/ MainDownloaded
  \/ \E ok \in BOOLEAN : MainDatabase(ok)
  \/ \E ok \in BOOLEAN : MainServer(ok)
  \/ MainListen
  \/ MainRefresher
  \/ ListenFails
  \/ Serve
  \/ PeriodicRefresh
  \/ MainInterrupted

SpecMain == InitMain /\ [][NextMain]_vars

(***************************************************************************)
(* SpecCSV: processCSV on CSV files of up to MaxRecords records after the  *)
(* header, and a table with or without rows.                               *)
(***************************************************************************)
MaxRecords == 3

\* A record of sixteen fields with the given name, player id, team, OAA and rates.
Record(name, id, team, oaa, actual, estimated, diff) ==
  <<name, id, team, <<"x">>, <<"S", "S">>, <<"x">>, oaa, <<"x">>, <<"x">>, <<"x">>, <<"x">>, <<"x">>, <<"x">>,
    actual, estimated, diff>>

Header ==
  Record(<<"N", "a", "m", "e">>, <<"P", "l", "a", "y", "e", "r", "I", "D">>, <<"T", "e", "a", "m">>, <<"O", "A", "A">>, <<"A", "c", "t", "u", "a", "l", "S", "u", "c", "c", "e", "s", "s", "R", "a", "t", "e">>,
         <<"E", "s", "t", "i", "m", "a", "t", "e", "d", "S", "u", "c", "c", "e", "s", "s", "R", "a", "t", "e">>, <<"D", "i", "f", "f", "S", "u", "c", "c", "e", "s", "s", "R", "a", "t", "e">>)

\* Two records that are inserted, one that is skipped for its name, one that is
\* skipped for its OAA, and one of fifteen fields.
RecordPool ==
  { Record(<<"S", "m", "i", "t", "h", ",", " ", "J", "o", "h", "n">>, <<"1", "2", "3">>, <<"B", "l", "u", "e", " ", "J", "a", "y", "s">>, <<"5">>, <<"9", "0", "%">>, <<"8", "0", "%">>, <<"1", "0", "%">>),
    Record(<<"D", "o", "e", ",", " ", "J", "a", "n", "e">>, <<"4", "5", "6">>, <<"P", "a", "d", "r", "e", "s">>, <<"-", "2">>, <<"8", "5", "%">>, <<"8", "7", "%">>, <<"-", "2", "%">>),
    Record(<<"S", "m", "i", "t", "h", " ", "J", "o", "h", "n">>, <<"1", "2", "3">>, <<"B", "l", "u", "e", " ", "J", "a", "y", "s">>, <<"5">>, <<"9", "0", "%">>, <<"8", "0", "%">>, <<"1", "0", "%">>),
    Record(<<"R", "o", "e", ",", " ", "M", "a", "x">>, <<"7", "8", "9">>, <<"M", "e", "t", "s">>, <<"n", "/", "a">>, <<"9", "0", "%">>, <<"8", "0", "%">>, <<"1", "0", "%">>),
    SubSeq(Record(<<"P", "o", "e", ",", " ", "A", "n", "n">>, <<"3", "2", "1">>, <<"C", "u", "b", "s">>, <<"1">>, <<"9", "0", "%">>, <<"8", "0", "%">>, <<"1", "0", "%">>), 1, 15) }

CsvFiles ==
  {<<>>, <<SubSeq(Header, 1, 15)>>} \cup {<<Header>> \o recs : recs \in SeqsUpTo(RecordPool, MaxRecords)}

\* A row the table may hold before the call: of today or of an earlier day.
OldRow(date) ==
  [ParseRecord(Record(<<"S", "m", "i", "t", "h", ",", " ", "J", "o", "h", "n">>, <<"1", "2", "3">>, <<"B", "l", "u", "e", " ", "J", "a", "y", "s">>, <<"4">>, <<"8", "9", "%">>, <<"8", "0", "%">>, <<"9", "%">>)).row
     EXCEPT !.date = date]

Tables == {{}, {OldRow(CurrentDate)}, {OldRow(<<"2", "0", "2", "4", "-", "1", "2", "-", "3", "1">>)}}

InitCSV ==
  /\ ClientIdle
  /\ RestIdle
  /\ srv = SrvIdle
  /\ reqs = ReqsIdle
  /\ boot = BootIdle
  /\ csv \in {[CsvIdle EXCEPT !.file = f, !.table = t] : f \in CsvFiles, t \in Tables}
  /\ bom = BomIdle
  /\ stats = StatsIdle
  /\ trip = TripIdle

NextCSV ==
  \/ \E fail \in {"none", "open", "database"} : ProcessCSVBegin(fail)
  \/ \E execOk \in BOOLEAN : ProcessCSVRecord(execOk)

SpecCSV == InitCSV /\ [][NextCSV]_vars

(***************************************************************************)
(* SpecBOM: removeBOM on every stream of up to MaxInputLen bytes.          *)
(***************************************************************************)
MaxInputLen == 4

\* The bytes of the mark, a letter and the zero byte.
BomBytes == {"EF", "BB", "BF", "61", "00"}

InitBOM ==
  /\ ClientIdle
  /\ RestIdle
  /\ srv = SrvIdle
  /\ reqs = ReqsIdle
  /\ boot = BootIdle
  /\ csv = CsvIdle
  /\ bom \in {[BomIdle EXCEPT !.input = s] : s \in SeqsUpTo(BomBytes, MaxInputLen)}
  /\ stats = StatsIdle
  /\ trip = TripIdle

NextBOM == RemoveBOMCall

SpecBOM == InitBOM /\ [][NextBOM]_vars

(***************************************************************************)
(* SpecStats: MapStatsByPlayerID on every list of up to MaxStats stats in  *)
(* which no player has two stats of one day, as the table has it.          *)
(***************************************************************************)
MaxStats == 3

PlayerName(id) == IF id = 1 THEN "John Doe" ELSE "Jane Smith"

StatPool ==
  {[PlayerID |-> id, Name |-> PlayerName(id), Position |-> pos, OAA |-> oaa, Date |-> date] :
     id \in {1, 2}, pos \in {"SS", "N/A"}, oaa \in {3, 5}, date \in {1, 2}}

StatLists ==
  {list \in SeqsUpTo(StatPool, MaxStats) :
     \A i, j \in 1..Len(list) :
       (i # j) => ~(list[i].PlayerID = list[j].PlayerID /\ list[i].Date = list[j].Date)}

InitStats ==
  /\ ClientIdle
  /\ RestIdle
  /\ srv = SrvIdle
  /\ reqs = ReqsIdle
  /\ boot = BootIdle
  /\ csv = CsvIdle
  /\ bom = BomIdle
  /\ stats \in {[StatsIdle EXCEPT !.input = list] : list \in StatLists}
  /\ trip = TripIdle

NextStats ==
  \E order \in Perms({stats.input[i].PlayerID : i \in 1..Len(stats.input)}) : MapStatsCall(order)

SpecStats == InitStats /\ [][NextStats]_vars

(***************************************************************************)
(* Claims about the canonicalisation functions.                            *)
(***************************************************************************)
\* The unreserved characters of RFC 3986, written out.
UnreservedSet ==
  { "A", "B", "C", "D", "E", "F", "G", "H", "I", "J", "K", "L", "M",
    "N", "O", "P", "Q", "R", "S", "T", "U", "V", "W", "X", "Y", "Z",
    "a", "b", "c", "d", "e", "f", "g", "h", "i", "j", "k", "l", "m",
    "n", "o", "p", "q", "r", "s", "t", "u", "v", "w", "x", "y", "z",
    "0", "1", "2", "3", "4", "5", "6", "7", "8", "9", "-", "_", ".", "~" }

UpperHexSet == {"0", "1", "2", "3", "4", "5", "6", "7", "8", "9", "A", "B", "C", "D", "E", "F"}

\* enc is seg with each unreserved byte copied and every other byte as %XX, X upper-case.
RECURSIVE IsEscapedForm(_, _)
IsEscapedForm(seg, enc) ==
  IF seg = <<>> THEN enc = <<>>
  ELSE IF Head(seg) \in UnreservedSet
       THEN /\ enc # <<>>
            /\ Head(enc) = Head(seg)
            /\ IsEscapedForm(Tail(seg), Tail(enc))
       ELSE /\ Len(enc) >= 3
            /\ enc[1] = "%"
            /\ enc[2] \in UpperHexSet
            /\ enc[3] \in UpperHexSet
            /\ UnHex(enc[2]) * 16 + UnHex(enc[3]) = Ord(Head(seg))
            /\ IsEscapedForm(Tail(seg), SubSeq(enc, 4, Len(enc)))

\* C4: buildCanonicalURI(bucket, key) is "/" bucket "/" followed by the key with
\* each /-separated segment escaped on its own: unreserved bytes copied, every
\* other byte as upper-case %XX, and as many segments, in the same places, as the key has.
C4_CanonicalURISegments ==
  uri.done =>
    LET prefix == <<"/">> \o uri.bucket \o <<"/">>
        rest == SubSeq(uri.out, Len(prefix) + 1, Len(uri.out))
        keySegs == Split(uri.key, "/")
        outSegs == Split(rest, "/")
    IN /\ Len(uri.out) >= Len(prefix)
       /\ SubSeq(uri.out, 1, Len(prefix)) = prefix
       /\ Len(outSegs) = Len(keySegs)
       /\ \A i \in 1..Len(keySegs) : IsEscapedForm(keySegs[i], outSegs[i])

\* The spec's known vector, computed.
C4_Witness ==
  /\ uri.done
  /\ uri.bucket = <<"m", "y", "-", "b", "u", "c", "k", "e", "t">>
  /\ uri.key = <<"f", "o", "l", "d", "e", "r", "/", "a", " ", "b", "/", "c", "+", "d", ".", "t", "x", "t">>
  /\ uri.out = <<"/", "m", "y", "-", "b", "u", "c", "k", "e", "t", "/", "f", "o", "l", "d", "e", "r", "/", "a", "%", "2", "0", "b", "/", "c", "%", "2", "B", "d", ".", "t", "x", "t">>

Count(seq, x) == Cardinality({i \in 1..Len(seq) : seq[i] = x})

\* Order of (key, value) pairs: by key, ties by value, both byte-wise.
PairLess(p, q) == StrLess(p[1], q[1]) \/ (p[1] = q[1] /\ StrLess(p[2], q[2]))

\* C3: for a raw query, canonicalQueryString is the percent-encoded key=value
\* pairs joined by "&" in ascending byte order of the encoded key, ties by the
\* encoded value, and the empty query gives the empty string.  (Stated for the
\* queries url.ParseQuery accepts.)
C3_QuerySortedByEncodedKey ==
  (qry.done /\ ~ParseQuery(qry.raw).err) =>
    LET pairs == ParseQuery(qry.raw).pairs
        want == [i \in 1..Len(pairs) |->
                   <<encodeRFC3986(pairs[i].key), encodeRFC3986(pairs[i].value)>>]
        outParts == IF qry.out = <<>> THEN <<>> ELSE Split(qry.out, "&")
        got == [i \in 1..Len(outParts) |-> Cut(outParts[i], "=")]
    IN /\ Len(got) = Len(want)
       /\ \A i \in 1..Len(want) : Count(got, want[i]) = Count(want, want[i])
       /\ \A i \in 1..Len(got) : \A j \in 1..Len(got) : i < j => ~PairLess(got[j], got[i])
       /\ (qry.raw = <<>> => qry.out = <<>>)

\* The field names of a canonical header block: the text before the first ":" of
\* each line (the block of no header at all is a lone newline).
NamesOfBlock(block) ==
  IF block = <<"\n">> THEN <<>>
  ELSE LET lines == Split(SubSeq(block, 1, Len(block) - 1), "\n")
       IN [i \in 1..Len(lines) |-> Cut(lines[i], ":")[1]]

\* The field names of a signed-header list.
NamesOfList(list) == IF list = <<>> THEN <<>> ELSE Split(list, ";")

IsAscending(names) ==
  \A i \in 1..Len(names) : \A j \in 1..Len(names) : i < j => ~StrLess(names[j], names[i])

IsLowerCase(s) == \A i \in 1..Len(s) : ~IsUpperLetter(s[i])

\* C2: for any header map, the names rendered in the canonical header block are
\* exactly the names of the signed-header list: the same names, one per field of
\* the map, in the same ascending order, all in lower case.
C2_HeaderNamesAgree ==
  hdr.done =>
    LET inBlock == NamesOfBlock(hdr.canonical)
        inList == NamesOfList(hdr.signed)
    IN /\ hdr.canonical # <<>>
       /\ hdr.canonical[Len(hdr.canonical)] = "\n"
       /\ inBlock = inList
       /\ Len(inList) = Cardinality(DOMAIN hdr.header)
       /\ {inList[i] : i \in 1..Len(inList)} = {ToLower(k) : k \in DOMAIN hdr.header}
       /\ IsAscending(inList)
       /\ \A i \in 1..Len(inList) : IsLowerCase(inList[i])

C2_Witness ==
  /\ hdr.done
  /\ DOMAIN hdr.header = {<<"H", "o", "s", "t">>, <<"X", "-", "A", "m", "z", "-", "D", "a", "t", "e">>, <<"C", "o", "n", "t", "e", "n", "t", "-", "T", "y", "p", "e">>}
  /\ hdr.signed = <<"c", "o", "n", "t", "e", "n", "t", "-", "t", "y", "p", "e", ";", "h", "o", "s", "t", ";", "x", "-", "a", "m", "z", "-", "d", "a", "t", "e">>
  /\ NamesOfBlock(hdr.canonical) = <<<<"c", "o", "n", "t", "e", "n", "t", "-", "t", "y", "p", "e">>, <<"h", "o", "s", "t">>, <<"x", "-", "a", "m", "z", "-", "d", "a", "t", "e">>>>

(***************************************************************************)
(* Claims about signRequest and the calls.                                 *)
(***************************************************************************)
\* The request of this call went through signRequest.
IsSigned(call) == call.sign.signature # <<>>

HasPrefix(s, p) == Len(s) >= Len(p) /\ SubSeq(s, 1, Len(p)) = p

Elements(s) == {s[i] : i \in 1..Len(s)}

\* The Authorization header of the request as sent.
AuthOf(call) == HeaderGet(call.header, <<"A", "u", "t", "h", "o", "r", "i", "z", "a", "t", "i", "o", "n">>)

\* The signed-header list as written in the Authorization header: the text after
\* "SignedHeaders=" up to the next comma.
SignedListInAuth(call) == Cut(Split(AuthOf(call), ",")[2], "=")[2]

\* The lines of the canonical request that was hashed, and of the string to sign.
CanonicalLines(call) == Split(call.sign.canonicalRequest, "\n")

StringToSignLines(call) == Split(call.sign.stringToSign, "\n")

\* The header lines of the canonical request: after method, URI and query, and
\* before the empty line, the signed-header list and the payload hash.
HeaderLines(call) ==
  LET lines == CanonicalLines(call) IN SubSeq(lines, 4, Len(lines) - 3)

RequiredSigned == {<<"h", "o", "s", "t">>, <<"x", "-", "a", "m", "z", "-", "d", "a", "t", "e">>, <<"x", "-", "a", "m", "z", "-", "c", "o", "n", "t", "e", "n", "t", "-", "s", "h", "a", "2", "5", "6">>}

\* C1: in every request signed by GetObject or PutObject the signed-header list of
\* the Authorization header names host, x-amz-date and x-amz-content-sha256, and
\* each of them is a line, with the value sent, of the header block of the
\* canonical request whose hash is in the string to sign.
C1_RequiredHeadersSigned ==
  \A c \in DOMAIN calls :
    IsSigned(calls[c]) =>
      LET call == calls[c]
          sts == StringToSignLines(call)
      IN /\ RequiredSigned \subseteq Elements(Split(SignedListInAuth(call), ";"))
         /\ \A h \in RequiredSigned :
              \E i \in 1..Len(HeaderLines(call)) :
                HeaderLines(call)[i] = h \o <<":">> \o HeaderGet(call.header, h)
         /\ sts[Len(sts)] = Sha256Hex(call.sign.canonicalRequest)

C1_Witness ==
  \E c \in DOMAIN calls :
    /\ calls[c].pc = "sent"
    /\ calls[c].method = <<"G", "E", "T">>
    /\ SignedListInAuth(calls[c]) = <<"h", "o", "s", "t", ";", "x", "-", "a", "m", "z", "-", "c", "o", "n", "t", "e", "n", "t", "-", "s", "h", "a", "2", "5", "6", ";", "x", "-", "a", "m", "z", "-", "d", "a", "t", "e">>
    /\ HeaderGet(calls[c].header, <<"H", "o", "s", "t">>) = <<"e", "x", "a", "m", "p", "l", "e", ".", "c", "o", "m">>

\* C5: the canonical request is, line by line: the method, the canonical URI, the
\* canonical query, one name:value line per signed header, one empty line, the
\* signed-header list, the payload hash; nothing follows the payload hash.
C5_CanonicalRequestLayout ==
  \A c \in DOMAIN calls :
    IsSigned(calls[c]) =>
      LET call == calls[c]
          lines == CanonicalLines(call)
          names == Split(SignedListInAuth(call), ";")
          n == Len(names)
      IN /\ Len(lines) = n + 6
         /\ lines[1] = call.method
         /\ lines[2] = <<"/">> \o call.bucket \o <<"/">>
                         \o Join([i \in 1..Len(Split(call.key, "/")) |->
                                    encodeRFC3986(Split(call.key, "/")[i])], <<"/">>)
         /\ lines[3] = <<>>
         /\ \A i \in 1..n :
              lines[3 + i] = names[i] \o <<":">> \o TrimSpace(HeaderGet(call.header, names[i]))
         /\ lines[n + 4] = <<>>
         /\ lines[n + 5] = SignedListInAuth(call)
         /\ lines[n + 6] = HeaderGet(call.header, <<"X", "-", "A", "m", "z", "-", "C", "o", "n", "t", "e", "n", "t", "-", "S", "h", "a", "2", "5", "6">>)

C5_Witness ==
  \E c \in DOMAIN calls :
    /\ calls[c].pc = "sent"
    /\ calls[c].method = <<"P", "U", "T">>
    /\ calls[c].key = <<"a", " ", "b", "/", "c", "+", "d">>
    /\ Len(CanonicalLines(calls[c])) = 10
    /\ CanonicalLines(calls[c])[2] = <<"/", "o", "a", "a", "m", "o", "n", "i", "t", "o", "r", "/", "a", "%", "2", "0", "b", "/", "c", "%", "2", "B", "d">>
    /\ CanonicalLines(calls[c])[4] = <<"c", "o", "n", "t", "e", "n", "t", "-", "t", "y", "p", "e", ":", "a", "p", "p", "l", "i", "c", "a", "t", "i", "o", "n", "/", "o", "c", "t", "e", "t", "-", "s", "t", "r", "e", "a", "m">>

\* The first eight characters of a time stamp: its date.
DateOf(timeStamp) == SubSeq(timeStamp, 1, 8)

\* The SigV4 signature of a string to sign, as the protocol defines it.
SigV4Signature(secret, dateStamp, region, stringToSign) ==
  LET kDate == "hmac[" \o Str(<<"A", "W", "S", "4">> \o secret) \o "|" \o Str(dateStamp) \o "]"
      kRegion == "hmac[" \o kDate \o "|" \o Str(region) \o "]"
      kService == "hmac[" \o kRegion \o "|s3]"
      kSigning == "hmac[" \o kService \o "|aws4_request]"
  IN <<"hex[" \o "hmac[" \o kSigning \o "|" \o Str(stringToSign) \o "]" \o "]">>

\* C6: one instant serves the whole call: the X-Amz-Date header, the time-stamp
\* line of the string to sign, the date of the credential scope (in the string to
\* sign and in the Authorization header) and the date of the key derivation all
\* come from the instant the call captured, so the date stamp is the first eight
\* characters of the time stamp.
C6_OneInstant ==
  \A c \in DOMAIN calls :
    IsSigned(calls[c]) =>
      LET call == calls[c]
          stamp == HeaderGet(call.header, <<"X", "-", "A", "m", "z", "-", "D", "a", "t", "e">>)
          sts == StringToSignLines(call)
      IN /\ stamp = FormatTime(call.sign.now)
         /\ Len(stamp) = 16
         /\ sts[2] = stamp
         /\ Cut(sts[3], "/")[1] = DateOf(stamp)
         /\ call.sign.dateStamp = DateOf(stamp)
         /\ Cut(Cut(AuthOf(call), "/")[2], "/")[1] = DateOf(stamp)
         /\ call.sign.signature =
              SigV4Signature(client.SecretAccessKey, DateOf(stamp), client.Region,
                             call.sign.stringToSign)

\* A request signed in the last second of a day.
C6_Witness ==
  \E c \in DOMAIN calls :
    /\ calls[c].pc = "sent"
    /\ HeaderGet(calls[c].header, <<"X", "-", "A", "m", "z", "-", "D", "a", "t", "e">>) = <<"2", "0", "2", "4", "1", "2", "3", "1", "T", "2", "3", "5", "9", "5", "9", "Z">>
    /\ calls[c].sign.dateStamp = <<"2", "0", "2", "4", "1", "2", "3", "1">>

\* C7: the signature is hex(HMAC(k_signing, string_to_sign)) with
\* k_date = HMAC("AWS4"+secret, date_stamp), k_region = HMAC(k_date, region),
\* k_service = HMAC(k_region, "s3"), k_signing = HMAC(k_service, "aws4_request"),
\* every key the raw output of the step before and hex applied to the last value only.
C7_KeyChain ==
  \A c \in DOMAIN calls :
    IsSigned(calls[c]) =>
      /\ calls[c].sign.signature =
           SigV4Signature(client.SecretAccessKey, calls[c].sign.dateStamp, client.Region,
                          calls[c].sign.stringToSign)
      /\ Len(calls[c].sign.signature) = 1

C7_Witness ==
  \E c \in DOMAIN calls :
    /\ calls[c].pc = "sent"
    /\ client.Region = <<"u", "s", "-", "e", "a", "s", "t", "-", "1">>
    /\ client.SecretAccessKey = <<"w", "J", "a", "l", "r", "/", "K", "7">>
    /\ calls[c].sign.signature # <<>>
    /\ calls[c].sign.dateStamp = <<"2", "0", "2", "5", "0", "1", "0", "1">>

\* C8: the Authorization header is "AWS4-HMAC-SHA256 Credential=" access key "/"
\* date "/" region "/s3/aws4_request" ", SignedHeaders=" list ", Signature="
\* signature, the scope being the scope line of the string to sign and the list
\* the signed-header line of the canonical request.
C8_AuthorizationHeader ==
  \A c \in DOMAIN calls :
    IsSigned(calls[c]) =>
      LET call == calls[c]
          lines == CanonicalLines(call)
          sts == StringToSignLines(call)
          date == DateOf(HeaderGet(call.header, <<"X", "-", "A", "m", "z", "-", "D", "a", "t", "e">>))
      IN /\ AuthOf(call) =
              <<"A", "W", "S", "4", "-", "H", "M", "A", "C", "-", "S", "H", "A", "2", "5", "6", " ", "C", "r", "e", "d", "e", "n", "t", "i", "a", "l", "=">> \o client.AccessKeyID \o <<"/">> \o date
                \o <<"/">> \o client.Region \o <<"/", "s", "3", "/", "a", "w", "s", "4", "_", "r", "e", "q", "u", "e", "s", "t">>
                \o <<",", " ", "S", "i", "g", "n", "e", "d", "H", "e", "a", "d", "e", "r", "s", "=">> \o lines[Len(lines) - 1]
                \o <<",", " ", "S", "i", "g", "n", "a", "t", "u", "r", "e", "=">> \o call.sign.signature
         /\ sts[3] = date \o <<"/">> \o client.Region \o <<"/", "s", "3", "/", "a", "w", "s", "4", "_", "r", "e", "q", "u", "e", "s", "t">>
         /\ sts[1] = <<"A", "W", "S", "4", "-", "H", "M", "A", "C", "-", "S", "H", "A", "2", "5", "6">>

C8_Witness ==
  \E c \in DOMAIN calls :
    /\ calls[c].pc = "sent"
    /\ calls[c].method = <<"G", "E", "T">>
    /\ HasPrefix(AuthOf(calls[c]),
         <<"A", "W", "S", "4", "-", "H", "M", "A", "C", "-", "S", "H", "A", "2", "5", "6", " ", "C", "r", "e", "d", "e", "n", "t", "i", "a", "l", "=", "t", "i", "d", "_", "x", "/", "2", "0", "2", "4", "1", "2", "3", "1", "/", "a", "u", "t", "o", "/", "s", "3", "/", "a", "w", "s", "4", "_", "r", "e", "q", "u", "e", "s", "t">>
           \o <<",", " ", "S", "i", "g", "n", "e", "d", "H", "e", "a", "d", "e", "r", "s", "=", "h", "o", "s", "t", ";", "x", "-", "a", "m", "z", "-", "c", "o", "n", "t", "e", "n", "t", "-", "s", "h", "a", "2", "5", "6", ";", "x", "-", "a", "m", "z", "-", "d", "a", "t", "e", ",", " ", "S", "i", "g", "n", "a", "t", "u", "r", "e", "=">>)

\* What a signRequest run is given: the method, the address, the payload (hence
\* its hash) and the captured instant; the client is the same for all calls.
SameSignInputs(a, b) ==
  /\ a.method = b.method
  /\ a.bucket = b.bucket
  /\ a.key = b.key
  /\ a.url = b.url
  /\ a.body = b.body
  /\ a.sign.now = b.sign.now

\* C9: two signRequest runs with the same client, method, bucket, key, query,
\* headers, payload hash and captured instant give the same canonical request and
\* the same signature, whatever order the header map is visited in.
C9_Deterministic ==
  \A a \in DOMAIN calls : \A b \in DOMAIN calls :
    (IsSigned(calls[a]) /\ IsSigned(calls[b]) /\ SameSignInputs(calls[a], calls[b])) =>
      /\ calls[a].sign.canonicalRequest = calls[b].sign.canonicalRequest
      /\ calls[a].sign.stringToSign = calls[b].sign.stringToSign
      /\ calls[a].sign.signature = calls[b].sign.signature
      /\ calls[a].header = calls[b].header

\* Two callers with requests signed from the same inputs at the same instant.
C9_Witness ==
  /\ DOMAIN calls = {1, 2}
  /\ calls[1].pc = "sent"
  /\ calls[2].pc = "sent"
  /\ calls[1].method = <<"P", "U", "T">>
  /\ SameSignInputs(calls[1], calls[2])
  /\ calls[1].sign.signature = calls[2].sign.signature

\* C10: GetObject answers a 404 response with the "object not found" error and
\* never with the "S3 error <status>" error, and only a 404 gets that answer.
C10_NotFoundIsDistinct ==
  \A c \in DOMAIN calls :
    (calls[c].pc = "done" /\ calls[c].method = <<"G", "E", "T">> /\ calls[c].status # 0) =>
      /\ calls[c].status = 404 <=>
           calls[c].err = <<"o", "b", "j", "e", "c", "t", " ", "n", "o", "t", " ", "f", "o", "u", "n", "d", ":", " ">> \o calls[c].bucket \o <<"/">> \o calls[c].key
      /\ calls[c].status = 404 => ~HasPrefix(calls[c].err, <<"S", "3", " ", "e", "r", "r", "o", "r">>)
      /\ calls[c].status = 404 => calls[c].stream = "nil"

C10_Witness ==
  \E c \in DOMAIN calls :
    /\ calls[c].pc = "done"
    /\ calls[c].method = <<"G", "E", "T">>
    /\ calls[c].status = 404
    /\ calls[c].err = <<"o", "b", "j", "e", "c", "t", " ", "n", "o", "t", " ", "f", "o", "u", "n", "d", ":", " ", "o", "a", "a", "m", "o", "n", "i", "t", "o", "r", "/", "o", "a", "a", "m", "o", "n", "i", "t", "o", "r", ".", "d", "b">>

(***************************************************************************)
(* Claims on what GetObject and PutObject return and on the body they send *)
(***************************************************************************)
IsGet(call) == call.method = <<"G", "E", "T">>

IsPut(call) == call.method = <<"P", "U", "T">>

\* The decimal text of the statuses answered.
StatusText(status) ==
  CASE status = 200 -> <<"2", "0", "0">>
    [] status = 204 -> <<"2", "0", "4">>
    [] status = 403 -> <<"4", "0", "3">>
    [] status = 404 -> <<"4", "0", "4">>
    [] status = 500 -> <<"5", "0", "0">>

\* The error of a status that is not accepted: the code and the text of the body.
StatusError(call) ==
  <<"S", "3", " ", "e", "r", "r", "o", "r", " ">> \o StatusText(call.status) \o <<":", " ">> \o call.respBody

\* C11: for every response status GetObject returns the open body stream and no error
\* on 200, the not-found error on 404, an error with the status code and the text of
\* the response body on every other status outside 2xx; and with every error
\* (of a response or before one) the stream returned is nil.
C11_GetObjectOutcomes ==
  \A c \in DOMAIN calls :
    LET call == calls[c]
    IN (call.pc = "done" /\ IsGet(call)) =>
         /\ call.status = 200 =>
              call.stream = "open" /\ ~call.respClosed /\ call.err = <<>>
         /\ call.status = 404 =>
              call.err = <<"o", "b", "j", "e", "c", "t", " ", "n", "o", "t", " ", "f", "o", "u", "n", "d", ":", " ">> \o call.bucket \o <<"/">> \o call.key
         /\ (call.status # 0 /\ call.status # 404 /\ call.status \notin 200..299) =>
              call.err = StatusError(call)
         /\ call.err # <<>> => call.stream = "nil"
         /\ call.status # 200 => call.err # <<>>

C11_Witness ==
  \E c \in DOMAIN calls :
    /\ calls[c].pc = "done"
    /\ IsGet(calls[c])
    /\ calls[c].status = 500
    /\ calls[c].err = <<"S", "3", " ", "e", "r", "r", "o", "r", " ", "5", "0", "0", ":", " ", "I", "n", "t", "e", "r", "n", "a", "l", "E", "r", "r", "o", "r">>
    /\ calls[c].stream = "nil"

\* C12: PutObject returns nil exactly when the request was answered with status 200
\* or 204; every other status gives the error with the status code and the text of
\* the response body, and a transport failure gives an error.
C12_PutObjectSuccess ==
  \A c \in DOMAIN calls :
    LET call == calls[c]
    IN (call.pc = "done" /\ IsPut(call)) =>
         /\ (call.err = <<>>) <=> (call.attempts = 1 /\ call.status \in {200, 204})
         /\ (call.status # 0 /\ call.status \notin {200, 204}) =>
              call.err = StatusError(call)

C12_Witness ==
  \E c \in DOMAIN calls :
    /\ calls[c].pc = "done"
    /\ IsPut(calls[c])
    /\ calls[c].status = 204
    /\ calls[c].attempts = 1
    /\ calls[c].err = <<>>

\* C13: whatever the position of the reader when PutObject is called, when the
\* request is issued the body has been hashed from its first byte to its last, the
\* read position is 0 again, and the bytes the transport reads are the bytes hashed;
\* a call that fails at a seek or at the hash read has signed and sent nothing.
C13_RewoundBeforeSend ==
  \A c \in DOMAIN calls :
    LET call == calls[c]
    IN IsPut(call) =>
         /\ call.attempts > 0 =>
              /\ call.hashed = call.body
              /\ call.transmitted = call.hashed
              /\ IsSigned(call)
         /\ call.pc = "sent" => call.pos = 0
         /\ call.attempts = 0 => ~IsSigned(call) /\ call.transmitted = <<>>

C13_Witness ==
  \E c \in DOMAIN calls :
    /\ calls[c].pc = "sent"
    /\ IsPut(calls[c])
    /\ calls[c].startPos = 6
    /\ calls[c].pos = 0
    /\ calls[c].transmitted = <<"S", "Q", "L", "i", "t", "e">>

\* C14: for an upload of a file of N bytes (the size passed is the length of the
\* file) the Content-Length of the request is N, and the X-Amz-Content-Sha256 header
\* and the last line of the canonical request are the SHA-256 of those N bytes: the
\* length declared is the number of bytes hashed and the number sent.
C14_LengthAndHashOfBody ==
  \A c \in DOMAIN calls :
    LET call == calls[c]
        lines == CanonicalLines(call)
    IN (IsPut(call) /\ call.attempts > 0 /\ call.size = Len(call.body)) =>
         /\ call.contentLength = Len(call.body)
         /\ call.contentLength = Len(call.hashed)
         /\ call.contentLength = Len(call.transmitted)
         /\ HeaderGet(call.header, <<"X", "-", "A", "m", "z", "-", "C", "o", "n", "t", "e", "n", "t", "-", "S", "h", "a", "2", "5", "6">>) = Sha256Hex(call.body)
         /\ lines[Len(lines)] = Sha256Hex(call.body)

C14_Witness ==
  \E c \in DOMAIN calls :
    /\ calls[c].pc = "sent"
    /\ IsPut(calls[c])
    /\ calls[c].body = <<"S", "Q", "L", "i", "t", "e">>
    /\ calls[c].size = 6
    /\ calls[c].contentLength = 6
    /\ HeaderGet(calls[c].header, <<"x", "-", "a", "m", "z", "-", "c", "o", "n", "t", "e", "n", "t", "-", "s", "h", "a", "2", "5", "6">>) = <<"sha256hex[SQLite]">>

\* C15: a call of GetObject or PutObject issues at most one HTTP request: a call that
\* has ended after a response or a transport error has issued exactly one, and a call
\* that failed before client.Do has issued none.
C15_NoRetry ==
  \A c \in DOMAIN calls :
    LET call == calls[c]
    IN /\ call.attempts <= 1
       /\ call.pc = "sent" => call.attempts = 1
       /\ (call.pc = "done" /\ (call.status # 0 \/ HasPrefix(call.err, <<"r", "e", "q", "u", "e", "s", "t", " ", "f", "a", "i", "l", "e", "d", ":", " ">>)))
            => call.attempts = 1

C15_Witness ==
  \E c \in DOMAIN calls :
    /\ calls[c].pc = "done"
    /\ calls[c].attempts = 1
    /\ calls[c].err = <<"r", "e", "q", "u", "e", "s", "t", " ", "f", "a", "i", "l", "e", "d", ":", " ">> \o TransportErrorText

(***************************************************************************)
(* Claims on calls running at once on one client                           *)
(***************************************************************************)
\* The request the call made before signing, built again from its arguments.
RequestOf(call) ==
  LET req0 == NewRequest(call.method,
                         buildObjectURL(client.EndpointURL, call.bucket, call.key).url)
      sized == WithContentLength(req0, call.size)
  IN IF IsPut(call)
     THEN [sized EXCEPT !.header =
             HeaderSet(sized.header, <<"C", "o", "n", "t", "e", "n", "t", "-", "T", "y", "p", "e">>, <<"a", "p", "p", "l", "i", "c", "a", "t", "i", "o", "n", "/", "o", "c", "t", "e", "t", "-", "s", "t", "r", "e", "a", "m">>)]
     ELSE req0

\* What signRequest gives the call when it runs with no other call, reading the clock
\* at the instant the call read it.
SignedAlone(call) ==
  LET req == RequestOf(call)
      hash == IF IsPut(call) THEN Sha256Hex(call.body) ELSE <<>>
      toSign == HeadersToSign(req, call.sign.timeStamp, call.sign.payloadHash)
      order == CHOOSE o \in RangeOrders(toSign) : TRUE
  IN signRequest(client, req, call.bucket, call.key, hash,
                 <<call.sign.now, call.sign.now>>, order, order)

CallsIndependent ==
  \A c \in DOMAIN calls :
    IsSigned(calls[c]) =>
      /\ calls[c].sign = SignedAlone(calls[c])
      /\ calls[c].header = calls[c].sign.header
      /\ calls[c].url = RequestOf(calls[c]).url

\* C16: in every interleaving of GetObject and PutObject calls on one client, no step
\* writes the client's fields, and the request a call has signed is the request the
\* same call signs when it runs alone at the same reading of the clock.
C16_ConcurrentCallsSafe == [](CallsIndependent) /\ [][client' = client]_vars

\* Two calls in flight at once, a GET and a PUT, signed at different instants.
C16_Witness ==
  /\ DOMAIN calls = {1, 2}
  /\ calls[1].pc = "sent"
  /\ calls[2].pc = "sent"
  /\ IsGet(calls[1])
  /\ IsPut(calls[2])
  /\ calls[1].sign.now # calls[2].sign.now
  /\ calls[1].sign.signature # calls[2].sign.signature
  /\ calls[1].sign = SignedAlone(calls[1])

\* C20: no GetObject or PutObject request is signed and sent by a client whose
\* access-key id or secret key is empty.
C20_NoRequestWithoutCredentials ==
  \A c \in DOMAIN calls :
    calls[c].attempts > 0 => (client.AccessKeyID # <<>> /\ client.SecretAccessKey # <<>>)

(***************************************************************************)
(* Claims on DownloadDatabase, UploadDatabase and the refresh cycle        *)
(***************************************************************************)
Logged(log, text) == \E i \in 1..Len(log) : log[i] = text

\* C17: DownloadDatabase fetches the remote object, then creates or truncates the
\* local file, then copies the body into it: the file is not created or truncated
\* unless the fetch has succeeded, and a call in which a step failed returns an error.
C17_FetchBeforeCreate ==
  /\ dl.created => dl.fetched
  /\ (dl.pc = "done" /\ dl.err = "") => (dl.fetched /\ dl.created)
  /\ (dl.pc = "done" /\ dl.log # <<>>) => dl.err # ""

\* C18: when the local file cannot be opened or its size cannot be read,
\* UploadDatabase returns the error and has sent no PUT request.
C18_NoPutWithoutFile ==
  (Logged(ul.log, "Failed to open database file")
     \/ Logged(ul.log, "Failed to get file info")) =>
    /\ ul.pc = "done"
    /\ ul.err # ""
    /\ ul.puts = 0

C18_Witness ==
  /\ job.pc = "upload"
  /\ ul.pc = "done"
  /\ ul.log = <<"Failed to open database file">>
  /\ ul.err = "open error"
  /\ ul.puts = 0

\* C19: a refresh cycle whose UploadDatabase returned an error does not report the
\* database as uploaded.
C19_UploadErrorFailsCycle ==
  Logged(job.out, "Database successfully uploaded to Fly Storage.") => ul.err = ""

(***************************************************************************)
(* Claims on the round trip, the request path and the response bodies      *)
(***************************************************************************)
\* C21: round trip: against a store that keeps what a successful PUT sent and serves
\* it on GET, a file uploaded with PutObject and then fetched with GetObject from the
\* same bucket and key into a fresh path comes back byte for byte: the same length
\* and the same bytes, the empty file included.
C21_RoundTrip ==
  (trip.copied = "ok" /\ trip.afterPut) =>
    /\ trip.fresh.exists
    /\ Len(trip.fresh.data) = Len(trip.file)
    /\ trip.fresh.data = trip.file

C21_Witness ==
  /\ trip.copied = "ok"
  /\ trip.afterPut
  /\ trip.file = <<"S", "Q", "L", "i", "t", "e">>
  /\ trip.fresh = FileOf(<<"S", "Q", "L", "i", "t", "e">>)
  /\ trip.from = buildCanonicalURI(<<"o", "a", "a", "m", "o", "n", "i", "t", "o", "r">>, <<"o", "a", "a", "m", "o", "n", "i", "t", "o", "r", ".", "d", "b">>)
  /\ \E c \in DOMAIN calls : calls[c].method = <<"G", "E", "T">> /\ calls[c].status = 200

C21_WitnessEmptyFile ==
  /\ trip.copied = "ok"
  /\ trip.afterPut
  /\ trip.file = <<>>
  /\ trip.fresh = FileOf(<<>>)

(***************************************************************************)
(* Claims on handleRefresh                                                 *)
(***************************************************************************)
\* The refresh that request r started is in progress: the flag is set for it and its
\* deferred function has not reset it.
InProgress(r) == reqs[r].pc = "spawn" \/ reqs[r].go \in {"run", "ended", "deferred"}

\* C22: at most one background refresh is in progress at any time: a request that
\* finds the refreshing flag set is answered 429 with status "already_running" and
\* starts no refresh, and of the authorized requests that read the flag between two
\* resets exactly one, the first, is accepted with 202.
C22_OneRefreshAtATime ==
  /\ Cardinality({r \in Requests : InProgress(r)}) <= 1
  /\ srv.refreshing <=> (\E r \in Requests : InProgress(r))
  /\ \A r \in Requests :
       /\ reqs[r].saw = "set" =>
            /\ reqs[r].go = "none"
            /\ reqs[r].pc \in {"reject", "done"}
            /\ reqs[r].pc = "done" =>
                 (reqs[r].status = 429 /\ reqs[r].body.status = "already_running")
       /\ reqs[r].status = 202 => (reqs[r].saw = "clear" /\ reqs[r].go # "none")
       /\ reqs[r].status = 429 => reqs[r].saw = "set"
  /\ srv.accepted <= 1
  /\ srv.checked => srv.accepted = 1

C22_Witness ==
  /\ srv.refreshing
  /\ reqs[1].status = 202
  /\ reqs[1].go = "run"
  /\ reqs[2].status = 429
  /\ reqs[2].body.status = "already_running"
  /\ reqs[2].go = "none"

\* The header is missing, lacks the "Bearer " prefix, or carries another token.
Unauthenticated(r) ==
  \/ reqs[r].auth = <<>>
  \/ ~HasPrefix(reqs[r].auth, <<"B", "e", "a", "r", "e", "r", " ">>)
  \/ SubSeq(reqs[r].auth, Len(<<"B", "e", "a", "r", "e", "r", " ">>) + 1, Len(reqs[r].auth)) # srv.token

\* The handler of r has returned without reading or writing the flag and without
\* starting a refresh.
TurnedAway(r) == reqs[r].pc = "done" /\ reqs[r].saw = "unread" /\ reqs[r].go = "none"

\* C23: handleRefresh starts a refresh only for an authenticated request: with
\* REFRESH_TOKEN unset the answer is 500; with the Authorization header missing,
\* without the "Bearer " prefix or with another token it is 401; in these cases the
\* refreshing flag is left as it was and no background refresh is started.
C23_OnlyAuthenticatedRefresh ==
  /\ [](\A r \in Requests :
          /\ reqs[r].pc \notin {"idle", "auth"} =>
               /\ srv.token = <<>> => (reqs[r].status = 500 /\ TurnedAway(r))
               /\ (srv.token # <<>> /\ Unauthenticated(r)) =>
                    (reqs[r].status = 401 /\ TurnedAway(r))
          /\ reqs[r].status \in {401, 500} => TurnedAway(r)
          /\ reqs[r].go # "none" => (srv.token # <<>> /\ ~Unauthenticated(r)))
  /\ [][\A r \in Requests :
          (reqs[r].pc = "auth" /\ reqs'[r].status \in {401, 500}) =>
             (srv' = srv /\ \A q \in Requests : reqs'[q].go = reqs[q].go)]_vars

C23_Witness ==
  /\ srv.refreshing
  /\ reqs[1].go = "run"
  /\ reqs[2].auth = <<"B", "e", "a", "r", "e", "r", " ", "w", "r", "o", "n", "g">>
  /\ reqs[2].status = 401
  /\ reqs[2].saw = "unread"
  /\ reqs[2].go = "none"

\* The refresh of r is over, the flag is reset, the time of the reset is recorded and
\* the server is there to accept a request.
Released(r) ==
  /\ srv.alive
  /\ ~srv.refreshing
  /\ reqs[r].go = "done"
  /\ srv.lastRefreshAt >= reqs[r].startedAt

\* C28: the refresh lock is always released: once GetLatestOAA of an accepted request
\* has ended, by returning nil, returning an error or panicking, the refreshing flag
\* is eventually reset and lastRefreshAt updated, and the server accepts a later
\* authorized request again.
C28_RefreshLockReleased ==
  \A r \in Requests : (reqs[r].go = "ended") ~> Released(r)

\* The same, for the refreshes that nil or an error ends.
RefreshLockReleasedOnReturn ==
  \A r \in Requests : (reqs[r].go = "ended" /\ reqs[r].outcome # "panic") ~>
                        (Released(r) \/ ~srv.alive)

\* Whatever the end, the flag is reset and the time recorded.
RefreshingResetOnEveryEnd ==
  \A r \in Requests : (reqs[r].go = "ended") ~>
     (~srv.alive \/ (reqs[r].go \in {"done", "panicking"} /\ srv.lastRefreshAt >= reqs[r].startedAt))

(***************************************************************************)
(* Claims on processCSV, MapStatsByPlayerID, the request path, the         *)
(* response bodies, the start of the process and removeBOM                 *)
(***************************************************************************)
\* C24: processCSV is all-or-nothing: whenever it returns an error, the table
\* outs_above_average holds the same rows as before the call, and no row of the CSV
\* file has been put in it.
C24_AllOrNothing ==
  (csv.pc = "done" /\ csv.err # "") => csv.table = csv.before

\* The player ids of a list of stats.
PlayerIDs(list) == {list[i].PlayerID : i \in DOMAIN list}

\* The stats of player id in the list, as the places they are at.
StatsOf(list, id) == {i \in DOMAIN list : list[i].PlayerID = id}

\* The stat of player id with the most recent Date.
MostRecent(list, id) ==
  list[CHOOSE i \in StatsOf(list, id) : \A j \in StatsOf(list, id) : list[j].Date <= list[i].Date]

\* C25: for every list of stats in any order, MapStatsByPlayerID returns one entry
\* per distinct player id; its LatestOAA is the OAA of the player's stat with the most
\* recent Date, not of the stat that comes last in the input, and its OAAHistory holds
\* all the points of the player.
C25_LatestOAAByDate ==
  stats.done =>
    /\ Len(stats.out) = Cardinality(PlayerIDs(stats.input))
    /\ \A id \in PlayerIDs(stats.input) :
         \E i \in DOMAIN stats.out :
           /\ stats.out[i].PlayerID = id
           /\ stats.out[i].LatestOAA = MostRecent(stats.input, id).OAA
           /\ Len(stats.out[i].OAAHistory) = Cardinality(StatsOf(stats.input, id))
           /\ \A j \in StatsOf(stats.input, id) :
                \E k \in DOMAIN stats.out[i].OAAHistory :
                  stats.out[i].OAAHistory[k] =
                    [Date |-> stats.input[j].Date, OAA |-> stats.input[j].OAA]

\* All of C25 but the LatestOAA: one entry per player id, holding all its points.
EntriesAndHistories ==
  stats.done =>
    /\ Len(stats.out) = Cardinality(PlayerIDs(stats.input))
    /\ \A id \in PlayerIDs(stats.input) :
         \E i \in DOMAIN stats.out :
           /\ stats.out[i].PlayerID = id
           /\ Len(stats.out[i].OAAHistory) = Cardinality(StatsOf(stats.input, id))

\* C26: the path of the URL that GetObject and PutObject send the request to equals
\* the canonical URI that signRequest signed for the bucket and the key, for every
\* endpoint URL (with or without a trailing slash or a path component) and every key.
C26_SentPathIsSignedPath ==
  \A c \in DOMAIN calls :
    (calls[c].pc \in {"sent", "done"} /\ calls[c].url # <<>>) =>
      URLParse(calls[c].url).path = calls[c].sign.canonicalURI

\* C26 for the endpoints that have no path component.
SentPathIsSignedPathAtRoot ==
  \A c \in DOMAIN calls :
    (/\ calls[c].pc \in {"sent", "done"}
     /\ calls[c].url # <<>>
     /\ URLParse(TrimSuffixSlash(client.EndpointURL)).path = <<>>) =>
      URLParse(calls[c].url).path = calls[c].sign.canonicalURI

\* C27: no response body is leaked.  GetObject closes the body on every path that
\* returns an error after a response was received (404 and the other statuses that
\* are not 200) and leaves it open only when it returns it to the caller; PutObject
\* closes the body on every path once a response was received.
C27_NoBodyLeak ==
  \A c \in DOMAIN calls :
    (calls[c].pc = "done" /\ calls[c].status # 0) =>
      IF calls[c].method = <<"G", "E", "T">>
        THEN /\ calls[c].err # <<>> => (calls[c].respClosed /\ calls[c].stream = "nil")
             /\ ~calls[c].respClosed => (calls[c].err = <<>> /\ calls[c].stream = "open")
        ELSE calls[c].respClosed

C27_Witness ==
  \E c \in DOMAIN calls :
    /\ calls[c].pc = "done"
    /\ calls[c].method = <<"G", "E", "T">>
    /\ calls[c].status = 404
    /\ calls[c].err # <<>>
    /\ calls[c].respClosed

\* A PUT answered 500: the body is closed.
C27_WitnessPutClosed ==
  \E c \in DOMAIN calls :
    /\ calls[c].pc = "done"
    /\ calls[c].method = <<"P", "U", "T">>
    /\ calls[c].status = 500
    /\ calls[c].err # <<>>
    /\ calls[c].respClosed

\* A GET answered 200: the body is open and in the caller's hands.
C27_WitnessReturnedOpen ==
  \E c \in DOMAIN calls :
    /\ calls[c].pc = "done"
    /\ calls[c].method = <<"G", "E", "T">>
    /\ calls[c].status = 200
    /\ calls[c].stream = "open"
    /\ ~calls[c].respClosed

\* The database has been opened, the HTTP server or the periodic refresher started.
Started ==
  \/ boot.dbOpen
  \/ boot.listening
  \/ boot.refresher
  \/ boot.served > 0
  \/ boot.cycles > 0

\* C29: at startup, when DownloadDatabase is configured, the download of the database
\* completes before the local database is opened and before the HTTP server or the
\* periodic refresher is started; when the download returns an error the process
\* exits without opening the database or serving a request.
C29_DownloadBeforeStart ==
  /\ [](boot.download =>
          /\ Started => (dl.pc = "done" /\ dl.err = "")
          /\ (dl.pc = "done" /\ dl.err # "") =>
               /\ ~Started
               /\ boot.pc \in {"download", "exited"}
               /\ boot.pc = "exited" => boot.exit = 1)
  /\ [][(boot.download /\ boot.pc = "download" /\ boot'.pc # "download") =>
          /\ dl.pc = "done"
          /\ dl' = dl
          /\ dl.err # "" => (boot'.pc = "exited" /\ boot'.exit = 1)
          /\ dl.err = "" => boot'.pc = "database"]_vars

C29_Witness ==
  /\ boot.download
  /\ dl.pc = "done"
  /\ dl.err = ""
  /\ boot.dbOpen
  /\ boot.listening
  /\ boot.refresher
  /\ boot.served > 0

\* The download has failed and the process has exited.
C29_WitnessDownloadFails ==
  /\ boot.download
  /\ dl.pc = "done"
  /\ dl.err # ""
  /\ boot.pc = "exited"
  /\ boot.exit = 1

\* The stream without the byte-order mark it begins with, if it begins with one.
WithoutBOM(input) ==
  IF Len(input) >= 3 /\ SubSeq(input, 1, 3) = ByteOrderMark
    THEN SubSeq(input, 4, Len(input))
    ELSE input

\* C30: for every input byte stream, the reader that removeBOM returns yields the
\* input without the leading byte-order mark EF BB BF when there is one, and exactly
\* the bytes of the input, none added, dropped or reordered, when there is none,
\* inputs shorter than three bytes included.
C30_RemoveBOM ==
  bom.done => bom.out = WithoutBOM(bom.input)

\* C30 for the inputs of no byte or of three bytes and more.
RemoveBOMOfThreeAndMore ==
  (bom.done /\ (Len(bom.input) = 0 \/ Len(bom.input) >= 3)) => bom.out = WithoutBOM(bom.input)
====
